---- MODULE Spec2Model ----
(***************************************************************************)
(* Normalization engine of the signal-store demo: the schema registry,     *)
(* normalize / denormalize, and the withNormalization store feature.       *)
(*                                                                         *)
(* JavaScript values are tagged records; an object is a total function     *)
(* over Fields whose absent properties read as Undef.  An entity           *)
(* collection (a JavaScript object keyed by identifier) is the sequence of *)
(* its <<key, value>> entries in insertion order; property keys are        *)
(* strings, so identifiers are converted with ToKey.  Identifiers are      *)
(* never names of Object.prototype members.                                *)
(***************************************************************************)
EXTENDS Integers, Sequences, FiniteSets, TLC

VARIABLES
    nInput,     \* normalize: the input argument
    nType,      \* normalize: the schemaKey argument
    nSchemas,   \* normalize / denormalize: the schemaMap argument
    nd,         \* outcome of normalize(nInput, nType, nSchemas)
    dn,         \* outcome of denormalize(nd.result, nType, nd.entities, nSchemas)
    npc,        \* position of the normalize / denormalize round trip
    hw,         \* outcomes of the two normalizeBlogData functions on nInput
    schemas,    \* store: the schema map given to withNormalization
    entities,   \* store state: entities
    loading,    \* store state: loading
    pc,         \* store: "idle", or "adding" inside addNormalizedData
    cur,        \* store: arguments of the addNormalizedData call in progress
    last,       \* store: the last completed operation, its arguments and its outcome
    nops,       \* store: number of operations called so far
    views,      \* store: the computed signals handed out, each with its memoized outcome
    snaps       \* readers: the values of store.entities() they hold and what these alias

vars == <<nInput, nType, nSchemas, nd, dn, npc, hw, schemas, entities, loading, pc, cur, last, nops, views, snaps>>
nvars == <<nInput, nType, nSchemas, nd, dn, npc, hw>>
svars == <<schemas, entities, loading, pc, cur, last, nops, views, snaps>>

----------------------------------------------------------------------------
(* Bounds *)

MaxLen == 2
MaxDepth == 4
MaxOps == 4

----------------------------------------------------------------------------
(* JavaScript values *)

Fields == {"id", "username", "name", "author", "comments", "body", "comment"}

Undef == [t |-> "undef"]
Null == [t |-> "null"]

Str(s) == [t |-> "str", v |-> s]

Num(n) == [t |-> "num", n |-> n]

Arr(a) == [t |-> "arr", a |-> a]

Obj(r) == [t |-> "obj", f |-> [k \in Fields |-> IF k \in DOMAIN r THEN r[k] ELSE Undef]]

\* v[k] on a value that is neither null nor undefined
Get(v, k) == IF v.t = "obj" /\ k \in Fields THEN v.f[k] ELSE Undef

\* property access throws a TypeError on null and undefined
CanRead(v) == v.t \notin {"null", "undef"}

Truthy(v) ==
    CASE v.t \in {"null", "undef"} -> FALSE
      [] v.t = "str" -> v.v # ""
      [] v.t = "num" -> v.n # 0
      [] OTHER -> TRUE

NumStr == <<"1", "2", "3", "4", "5", "6", "7", "8", "9">>

IntegerKeys == {NumStr[i] : i \in 1..Len(NumStr)} \cup {"0"}

\* conversion of an identifier to the property key it is stored under
ToKey(id) ==
    CASE id.t = "str" -> id.v
      [] id.t = "num" -> IF id.n = 0 THEN "0" ELSE NumStr[id.n]
      [] id.t = "null" -> "null"
      [] id.t = "undef" -> "undefined"
      [] OTHER -> "[object Object]"

----------------------------------------------------------------------------
(* EntityMap: entries in insertion order *)

Has(m, k) == \E i \in 1..Len(m) : m[i].k = k

Lookup(m, k) == m[CHOOSE i \in 1..Len(m) : m[i].k = k].v

\* an assignment that adds an entry even when the key is present
PutAppend(m, k, v) == Append(m, [k |-> k, v |-> v])

\* a present key keeps its value
PutKeep(m, k, v) == IF Has(m, k) THEN m ELSE Append(m, [k |-> k, v |-> v])

\* m[k] = v: a present key keeps its position, a new key goes last
Put(m, k, v) ==
    IF Has(m, k)
    THEN [i \in 1..Len(m) |-> IF m[i].k = k THEN [k |-> k, v |-> v] ELSE m[i]]
    ELSE Append(m, [k |-> k, v |-> v])

\* every entry taken out
DelAll(m, k) == <<>>

\* delete m[k]
Del(m, k) == SelectSeq(m, LAMBDA e : e.k # k)

RECURSIVE Spread(_, _)
\* { ...a, ...b } on entity maps
Spread(a, b) == IF b = <<>> THEN a ELSE Spread(Put(a, Head(b).k, Head(b).v), Tail(b))

\* { ...a, ...b } on records
SpreadObj(a, b) ==
    [t |-> "obj", f |-> [k \in Fields |-> IF b.f[k] # Undef THEN b.f[k] ELSE a.f[k]]]

EmptyEntities == [t \in {} |-> <<>>]

\* the collection of t is emptied whether it is there or not
WithCollectionReset(ents, t) ==
    [x \in DOMAIN ents \cup {t} |-> IF x = t THEN <<>> ELSE ents[x]]

\* if (!entities[t]) entities[t] = {}
WithCollection(ents, t) ==
    IF t \in DOMAIN ents THEN ents
    ELSE [x \in DOMAIN ents \cup {t} |-> IF x = t THEN <<>> ELSE ents[x]]

----------------------------------------------------------------------------
(* Schema registry *)

hasOne(entityType) == [type |-> entityType, isArray |-> FALSE]

hasMany(entityType) == [type |-> entityType, isArray |-> TRUE]

Rel(key, config) == [key |-> key, type |-> config.type, isArray |-> config.isArray]

\* an EntitySchema; idKey "" stands for an omitted idKey
EntitySchema(idKey, hasRels, rels) ==
    [defined |-> TRUE, idKey |-> idKey, hasRels |-> hasRels, rels |-> rels]

createEntitySchema(idKey, rels) == EntitySchema(idKey, TRUE, rels)

NoSchema == [defined |-> FALSE, idKey |-> "", hasRels |-> FALSE, rels |-> <<>>]

\* schemaMap[type]
SchemaOf(sm, t) == IF t \in DOMAIN sm THEN sm[t] ELSE NoSchema

BlogSchemas ==
    [users |-> createEntitySchema("username", <<>>),
     comments |-> createEntitySchema("id", <<Rel("author", hasOne("users"))>>),
     posts |-> createEntitySchema("id", <<Rel("author", hasOne("users")),
                                          Rel("comments", hasMany("comments"))>>)]

----------------------------------------------------------------------------
(* normalize *)

Throw(st, kind) == [st |-> [st EXCEPT !.err = kind], id |-> Undef]

\* const processedEntity = entity: the input object is the object the
\* identifiers are written to
InputAliased(entity, processedEntity) == processedEntity

\* const processedEntity = { ...entity }: the input object after the writes to
\* processedEntity
InputAfter(entity, processedEntity) == entity

RECURSIVE processEntity(_, _, _, _)
RECURSIVE ProcessRels(_, _, _, _, _)
RECURSIVE ProcessArr(_, _, _, _, _, _)

\* processEntity without the check of the extracted identifier
processEntityUnchecked(entity, entityType, sm, st) ==
    LET schema == SchemaOf(sm, entityType)
        idKey == IF schema.idKey = "" THEN "id" ELSE schema.idKey
    IN  IF st.err # "none" THEN [st |-> st, id |-> Undef]
        ELSE IF ~schema.defined \/ ~CanRead(entity) THEN Throw(st, "TypeError")
        ELSE LET entityId == Get(entity, idKey)
                 seen == [st EXCEPT !.depth = @ + 1,
                                    !.visited = Append(@, [type |-> entityType, idKey |-> idKey,
                                                           entity |-> entity, after |-> entity,
                                                           depth |-> st.depth + 1])]
                 st1 == [seen EXCEPT !.entities = WithCollection(@, entityType)]
                 r == IF schema.hasRels
                      THEN ProcessRels(entity, schema.rels, 1, sm, st1)
                      ELSE [st |-> st1, e |-> entity]
             IN  IF r.st.err # "none" THEN [st |-> r.st, id |-> Undef]
                 ELSE [st |-> [r.st EXCEPT !.entities[entityType] =
                                   Put(@, ToKey(entityId), r.e),
                                           !.depth = st.depth],
                       id |-> entityId]

processEntity(entity, entityType, sm, st) ==
    LET schema == SchemaOf(sm, entityType)
        idKey == IF schema.idKey = "" THEN "id" ELSE schema.idKey
    IN  IF st.err # "none" THEN [st |-> st, id |-> Undef]
        ELSE IF ~schema.defined \/ ~CanRead(entity) THEN Throw(st, "TypeError")
        ELSE LET entityId == Get(entity, idKey)
                 seen == [st EXCEPT !.depth = @ + 1,
                                    !.visited = Append(@, [type |-> entityType, idKey |-> idKey,
                                                           entity |-> entity, after |-> entity,
                                                           depth |-> st.depth + 1])]
             IN  IF entityId = Undef THEN Throw(seen, "MissingIdentifier")
                 ELSE LET st1 == [seen EXCEPT !.entities = WithCollection(@, entityType)]
                          r == IF schema.hasRels
                               THEN ProcessRels(entity, schema.rels, 1, sm, st1)
                               ELSE [st |-> st1, e |-> entity]
                      IN  IF r.st.err # "none" THEN [st |-> r.st, id |-> Undef]
                          ELSE [st |-> [r.st EXCEPT !.entities[entityType] =
                                            Put(@, ToKey(entityId), r.e),
                                                    !.depth = st.depth,
                                                    !.visited[Len(seen.visited)].after =
                                            InputAfter(entity, r.e)],
                                id |-> entityId]

\* the relationships followed as the schema declares them: an absent singular
\* field is processed as an empty entity
ProcessRelsBySchema(e, rels, i, sm, st) ==
    IF i > Len(rels) \/ st.err # "none" THEN [st |-> st, e |-> e]
    ELSE LET rc == rels[i]
             value == e.f[rc.key]
         IN  IF value # Undef /\ rc.isArray /\ value.t = "arr"
             THEN LET r == ProcessArr(value.a, 1, rc.type, sm, st, <<>>)
                  IN  ProcessRels([e EXCEPT !.f[rc.key] = Arr(r.ids)], rels, i + 1, sm, r.st)
             ELSE IF ~rc.isArray /\ value # Null
             THEN LET r == processEntity(IF value = Undef THEN Obj(<<>>) ELSE value,
                                         rc.type, sm, st)
                  IN  ProcessRels([e EXCEPT !.f[rc.key] = r.id], rels, i + 1, sm, r.st)
             ELSE ProcessRels(e, rels, i + 1, sm, st)

\* for (const [key, relationshipConfig] of Object.entries(schema.relationships))
\* from relationship i on
ProcessRels(e, rels, i, sm, st) ==
    IF i > Len(rels) \/ st.err # "none" THEN [st |-> st, e |-> e]
    ELSE LET rc == rels[i]
             value == e.f[rc.key]
         IN  IF value # Undef /\ rc.isArray /\ value.t = "arr"
             THEN LET r == ProcessArr(value.a, 1, rc.type, sm, st, <<>>)
                  IN  ProcessRels([e EXCEPT !.f[rc.key] = Arr(r.ids)], rels, i + 1, sm, r.st)
             ELSE IF value # Undef /\ ~rc.isArray /\ value # Null
             THEN LET r == processEntity(value, rc.type, sm, st)
                  IN  ProcessRels([e EXCEPT !.f[rc.key] = r.id], rels, i + 1, sm, r.st)
             ELSE ProcessRels(e, rels, i + 1, sm, st)

\* the identifiers collected in reverse order
ProcessArrReversed(items, i, type, sm, st, acc) ==
    IF i > Len(items) \/ st.err # "none" THEN [st |-> st, ids |-> acc]
    ELSE LET r == processEntity(items[i], type, sm, st)
         IN  ProcessArr(items, i + 1, type, sm, r.st, <<r.id>> \o acc)

\* items.map(item => processEntity(item, type, ...)) from item i on
ProcessArr(items, i, type, sm, st, acc) ==
    IF i > Len(items) \/ st.err # "none" THEN [st |-> st, ids |-> acc]
    ELSE LET r == processEntity(items[i], type, sm, st)
         IN  ProcessArr(items, i + 1, type, sm, r.st, Append(acc, r.id))

NormalizedData(st, result) ==
    [err |-> st.err,
     entities |-> IF st.err = "none" THEN st.entities ELSE EmptyEntities,
     result |-> IF st.err = "none" THEN result ELSE Undef,
     visited |-> st.visited,
     partial |-> st.entities]

normalize(input, schemaKey, sm) ==
    LET st0 == [err |-> "none", entities |-> EmptyEntities, visited |-> <<>>, depth |-> 0]
    IN  IF ~SchemaOf(sm, schemaKey).defined
        THEN NormalizedData([st0 EXCEPT !.err = "SchemaNotFound"], Undef)
        ELSE IF input.t = "arr"
        THEN LET r == ProcessArr(input.a, 1, schemaKey, sm, st0, <<>>)
             IN  NormalizedData(r.st, Arr(r.ids))
        ELSE IF Truthy(input)
        THEN LET r == processEntity(input, schemaKey, sm, st0)
             IN  NormalizedData(r.st, r.id)
        ELSE NormalizedData(st0, Undef)

----------------------------------------------------------------------------
(* denormalize *)

\* const denormalizedEntity = { ...entity } written in place: the stored record
\* is the object the relationships are resolved in
StoredAliased(entity, denormalizedEntity) == denormalizedEntity

\* const denormalizedEntity = { ...entity }: the stored record after the writes
\* to denormalizedEntity
StoredAfter(entity, denormalizedEntity) == entity

RECURSIVE denormalizeSingle(_, _, _, _, _)
RECURSIVE DenormRels(_, _, _, _, _, _)
RECURSIVE DenormArr(_, _, _, _, _, _, _)

\* denormalizeSingle looking the schema up before the entity
denormalizeSingleSchemaFirst(entityId, entityType, ents, sm, depth) ==
    LET schema == SchemaOf(sm, entityType)
    IN  IF depth > MaxDepth THEN [err |-> "RangeError", val |-> Undef, copies |-> <<>>]
        ELSE IF ~schema.defined THEN [err |-> "TypeError", val |-> Undef, copies |-> <<>>]
        ELSE IF entityType \notin DOMAIN ents \/ ~Has(ents[entityType], ToKey(entityId))
        THEN [err |-> "none", val |-> Null, copies |-> <<>>]
        ELSE IF schema.hasRels
        THEN DenormRels(Lookup(ents[entityType], ToKey(entityId)), schema.rels, 1, ents, sm, depth)
        ELSE [err |-> "none", val |-> Lookup(ents[entityType], ToKey(entityId)),
              copies |-> <<>>]

\* denormalizeSingle that gives up with null where the recursion gets too deep
denormalizeSingleGuarded(entityId, entityType, ents, sm, depth) ==
    IF depth > MaxDepth THEN [err |-> "none", val |-> Null, copies |-> <<>>]
    ELSE IF entityType \notin DOMAIN ents \/ ~Has(ents[entityType], ToKey(entityId))
    THEN [err |-> "none", val |-> Null, copies |-> <<>>]
    ELSE LET entity == Lookup(ents[entityType], ToKey(entityId))
             schema == SchemaOf(sm, entityType)
         IN  IF ~schema.defined THEN [err |-> "TypeError", val |-> Undef, copies |-> <<>>]
             ELSE IF schema.hasRels
             THEN DenormRels(entity, schema.rels, 1, ents, sm, depth)
             ELSE [err |-> "none", val |-> entity, copies |-> <<>>]

\* depth counts the nested calls; exceeding MaxDepth is the call stack overflowing
denormalizeSingle(entityId, entityType, ents, sm, depth) ==
    IF depth > MaxDepth THEN [err |-> "RangeError", val |-> Undef, copies |-> <<>>]
    ELSE IF entityType \notin DOMAIN ents \/ ~Has(ents[entityType], ToKey(entityId))
    THEN [err |-> "none", val |-> Null, copies |-> <<>>]
    ELSE LET entity == Lookup(ents[entityType], ToKey(entityId))
             schema == SchemaOf(sm, entityType)
             r == IF schema.hasRels
                  THEN DenormRels(entity, schema.rels, 1, ents, sm, depth)
                  ELSE [err |-> "none", val |-> entity, copies |-> <<>>]
         IN  IF ~schema.defined THEN [err |-> "TypeError", val |-> Undef, copies |-> <<>>]
             ELSE IF r.err # "none" THEN r
             ELSE [r EXCEPT !.copies =
                       Append(@, [type |-> entityType, key |-> ToKey(entityId),
                                  after |-> StoredAfter(entity, r.val)])]

DenormRels(e, rels, i, ents, sm, depth) ==
    IF i > Len(rels) THEN [err |-> "none", val |-> e, copies |-> <<>>]
    ELSE LET rc == rels[i]
             value == e.f[rc.key]
         IN  IF value # Undef /\ rc.isArray /\ value.t = "arr"
             THEN LET r == DenormArr(value.a, 1, rc.type, ents, sm, depth + 1, <<>>)
                      rest == DenormRels([e EXCEPT !.f[rc.key] = r.val], rels, i + 1,
                                         ents, sm, depth)
                  IN  IF r.err # "none" THEN r
                      ELSE [rest EXCEPT !.copies = r.copies \o @]
             ELSE IF value # Undef /\ ~rc.isArray /\ value # Null
             THEN LET r == denormalizeSingle(value, rc.type, ents, sm, depth + 1)
                      rest == DenormRels([e EXCEPT !.f[rc.key] = r.val], rels, i + 1,
                                         ents, sm, depth)
                  IN  IF r.err # "none" THEN r
                      ELSE [rest EXCEPT !.copies = r.copies \o @]
             ELSE DenormRels(e, rels, i + 1, ents, sm, depth)

\* DenormArr without the filter(Boolean)
DenormArrUnfiltered(ids, i, type, ents, sm, depth, acc) ==
    IF i > Len(ids) THEN [err |-> "none", val |-> Arr(acc), copies |-> <<>>]
    ELSE LET r == denormalizeSingle(ids[i], type, ents, sm, depth)
             rest == DenormArr(ids, i + 1, type, ents, sm, depth, Append(acc, r.val))
         IN  IF r.err # "none" THEN r
             ELSE [rest EXCEPT !.copies = r.copies \o @]

\* ids.map(id => denormalizeSingle(...)).filter(Boolean)
DenormArr(ids, i, type, ents, sm, depth, acc) ==
    IF i > Len(ids) THEN [err |-> "none", val |-> Arr(acc), copies |-> <<>>]
    ELSE LET r == denormalizeSingle(ids[i], type, ents, sm, depth)
             rest == DenormArr(ids, i + 1, type, ents, sm, depth,
                               IF Truthy(r.val) THEN Append(acc, r.val) ELSE acc)
         IN  IF r.err # "none" THEN r
             ELSE [rest EXCEPT !.copies = r.copies \o @]

\* denormalize without the branch for an array of identifiers
denormalizeSingleOnly(entityId, entityType, ents, sm) ==
    denormalizeSingle(entityId, entityType, ents, sm, 1)

denormalize(entityId, entityType, ents, sm) ==
    IF entityId.t = "arr"
    THEN DenormArr(entityId.a, 1, entityType, ents, sm, 1, <<>>)
    ELSE denormalizeSingle(entityId, entityType, ents, sm, 1)

----------------------------------------------------------------------------
(* Inputs of normalize *)

SeqsUpTo(S, n) == UNION {[1..k -> S] : k \in 0..n}

User(u, n) == Obj([username |-> Str(u), name |-> Str(n)])

Comment(c, a) == Obj([id |-> c, author |-> a])

Post(p, a, cs) == Obj([id |-> p, author |-> a, comments |-> cs])

NamedUsers == {User("u1", "A"), User("u1", "B"), User("u2", "A")}

\* a user without username
AnonUser == Obj([name |-> Str("A")])

\* a user whose username is null
NullUser == Obj([username |-> Null, name |-> Str("A")])

UserVals == NamedUsers \cup {AnonUser, NullUser}

\* values of a singular relationship field: nested object, absent, null, identifier
AuthorVals == UserVals \cup {Undef, Null, Str("u1")}

CommentVals ==
    {Comment(Str(c), a) : c \in {"c1", "c2"}, a \in NamedUsers \cup {Undef}}
    \cup {Comment(Str("c1"), a) : a \in {AnonUser, NullUser, Null, Str("u1")}}
    \cup {Comment(Undef, User("u1", "A")), Comment(Num(1), Undef), Comment(Str("1"), Undef)}

\* values of a plural relationship field
CommentsVals ==
    {Arr(s) : s \in SeqsUpTo(CommentVals, MaxLen)}
    \cup {Undef, Null, Arr(<<Str("c1")>>), Arr(<<Null>>), Comment(Str("c1"), Undef)}

PostVals == {Post(Str("p1"), a, cs) : a \in AuthorVals, cs \in CommentsVals}

TopPosts ==
    {Post(Str("p1"), User("u1", "A"), Arr(<<Comment(Str("c1"), User("u2", "A"))>>)),
     Post(Str("p1"), User("u1", "B"), Arr(<<>>)),
     Post(Str("p2"), User("u2", "A"), Arr(<<Comment(Str("c1"), User("u1", "B"))>>)),
     Post(Str("p2"), User("u1", "A"),
          Arr(<<Comment(Str("c2"), User("u1", "A")), Comment(Str("c1"), User("u2", "A"))>>)),
     Post(Undef, User("u1", "A"), Undef),
     Null}

\* a comment with replies, a user with comments
Reply(c, a, rs) == Obj([id |-> Str(c), author |-> a, comments |-> rs])

Member(u, cs) == Obj([username |-> Str(u), comments |-> cs])

\* comment threads: chains of replies, a comment nested in itself, directly,
\* through a reply and through its author, and a user met with differing comments
ThreadVals ==
    {Reply("c1", Undef, Arr(<<Reply("c2", Undef, Arr(<<Reply("c3", Undef, Undef)>>))>>)),
     Reply("c1", Undef,
           Arr(<<Reply("c2", Undef,
                       Arr(<<Reply("c3", Undef, Arr(<<Reply("c4", Undef, Undef)>>))>>))>>)),
     Reply("c1", Undef, Arr(<<Reply("c1", Undef, Undef)>>)),
     Reply("c1", Undef, Arr(<<Reply("c2", Undef, Arr(<<Reply("c1", Undef, Undef)>>))>>)),
     Reply("c1", Member("u1", Arr(<<Reply("c1", Undef, Undef)>>)), Undef),
     Reply("c1", Member("u1", Arr(<<Reply("c2", Undef, Undef)>>)),
           Arr(<<Reply("c2", Member("u1", Undef), Undef)>>))}

\* the nested sample data of the blog store
SampleUser(n) == Obj([username |-> Str("user" \o n), name |-> Str("User " \o n)])

SampleComment(n, a, text) ==
    Obj([id |-> Str("comment" \o n), author |-> SampleUser(a), comment |-> Str(text)])

sampleBlogData ==
    Arr(<<Obj([id |-> Str("post1"),
               author |-> SampleUser("1"),
               body |-> Str("This is the first post content."),
               comments |-> Arr(<<SampleComment("1", "2", "Great post!"),
                                  SampleComment("2", "3", "I learned a lot from this.")>>)]),
          Obj([id |-> Str("post2"),
               author |-> SampleUser("2"),
               body |-> Str("This is the second post content."),
               comments |-> Arr(<<SampleComment("3", "3", "Interesting perspective!"),
                                  SampleComment("4", "1", "I disagree with some points."),
                                  SampleComment("5", "3", "Could you elaborate more?")>>)])>>)

PostArrays == {Arr(s) : s \in SeqsUpTo(TopPosts, MaxLen)}

TypeNames == {"posts", "comments", "users", "ghosts"}

\* the (input, schemaKey) arguments normalize is applied to
NormalizeCalls ==
    ((PostVals \cup PostArrays \cup {sampleBlogData}) \X {"posts"})
    \cup ((CommentVals \cup ThreadVals) \X {"comments"})
    \cup (UserVals \X {"users"})
    \cup ({Null, Str("p1"), User("u1", "A"), Comment(Str("c1"), User("u1", "A")),
           Post(Str("p1"), User("u1", "A"), Arr(<<>>))} \X TypeNames)

\* omitted idKey on posts and comments, comments without a relationships property
DefaultKeySchemas ==
    [users |-> createEntitySchema("username", <<>>),
     comments |-> EntitySchema("", FALSE, <<>>),
     posts |-> EntitySchema("", TRUE, <<Rel("author", hasOne("users")),
                                        Rel("comments", hasMany("comments"))>>)]

\* relationships whose target type has no schema
GhostSchemas ==
    [posts |-> createEntitySchema("id", <<Rel("author", hasOne("ghosts")),
                                          Rel("comments", hasMany("ghosts"))>>)]

NoPostsSchemas ==
    [users |-> createEntitySchema("username", <<>>),
     comments |-> createEntitySchema("id", <<Rel("author", hasOne("users"))>>)]

\* plural declared on the single-valued field and singular on the list
SwappedSchemas ==
    [users |-> createEntitySchema("username", <<>>),
     comments |-> createEntitySchema("id", <<Rel("author", hasOne("users"))>>),
     posts |-> createEntitySchema("id", <<Rel("author", hasMany("users")),
                                          Rel("comments", hasOne("comments"))>>)]

\* relationships that form cycles between types: comments have replies,
\* users have comments
ThreadSchemas ==
    [users |-> createEntitySchema("username", <<Rel("comments", hasMany("comments"))>>),
     comments |-> createEntitySchema("id", <<Rel("author", hasOne("users")),
                                             Rel("comments", hasMany("comments"))>>),
     posts |-> createEntitySchema("id", <<Rel("author", hasOne("users")),
                                          Rel("comments", hasMany("comments"))>>)]

SchemaMaps ==
    {BlogSchemas, DefaultKeySchemas, GhostSchemas, NoPostsSchemas, SwappedSchemas, ThreadSchemas}

----------------------------------------------------------------------------
(* Store constants used by both specifications *)

NoOutcome == [err |-> "none", val |-> Undef, copies |-> <<>>]

NoData ==
    [err |-> "none", entities |-> EmptyEntities, result |-> Undef, visited |-> <<>>,
     partial |-> EmptyEntities]

\* no call of normalizeBlogData yet
NoBlogData == [done |-> FALSE, err |-> "none", users |-> <<>>, comments |-> <<>>, posts |-> <<>>]

NoCall == [data |-> Undef, type |-> ""]

NoOp == [op |-> "none", type |-> "", id |-> Undef, threw |-> "none", success |-> FALSE,
         data |-> Undef, changes |-> Undef, again |-> FALSE]

StoreIdle ==
    /\ schemas = BlogSchemas
    /\ entities = [t \in DOMAIN BlogSchemas |-> <<>>]
    /\ loading = [t \in DOMAIN BlogSchemas |-> FALSE]
    /\ pc = "idle"
    /\ cur = NoCall
    /\ last = NoOp
    /\ nops = 0
    /\ views = <<>>
    /\ snaps = <<>>

----------------------------------------------------------------------------
(* Specification of the pure functions: normalize, then denormalize its result *)

NInit ==
    /\ \E call \in NormalizeCalls : nInput = call[1] /\ nType = call[2]
    /\ nSchemas \in SchemaMaps
    /\ nd = NoData
    /\ dn = NoOutcome
    /\ npc = "start"
    /\ hw = [blog |-> NoBlogData, utils |-> NoBlogData]
    /\ StoreIdle

Normalize ==
    /\ npc = "start"
    /\ nd' = normalize(nInput, nType, nSchemas)
    /\ npc' = "normalized"
    /\ UNCHANGED <<nInput, nType, nSchemas, dn, hw>>
    /\ UNCHANGED svars

Denormalize ==
    /\ npc = "normalized"
    /\ nd.err = "none"
    /\ dn' = denormalize(nd.result, nType, nd.entities, nSchemas)
    /\ npc' = "denormalized"
    /\ UNCHANGED <<nInput, nType, nSchemas, nd, hw>>
    /\ UNCHANGED svars

NNext == Normalize \/ Denormalize

SpecN == NInit /\ [][NNext]_vars

----------------------------------------------------------------------------
(* Properties of normalize and of the round trip, checked under SpecN *)

IdOf(v) == Get(v.entity, v.idKey)

\* all occurrences of one identifier of one type in the input are structurally equal
SameIdSameContent ==
    \A i, j \in 1..Len(nd.visited) :
        (/\ nd.visited[i].type = nd.visited[j].type
         /\ ToKey(IdOf(nd.visited[i])) = ToKey(IdOf(nd.visited[j])))
        => nd.visited[i].entity = nd.visited[j].entity

RepeatedId ==
    \E i, j \in 1..Len(nd.visited) :
        /\ i # j
        /\ nd.visited[i].type = nd.visited[j].type
        /\ ToKey(IdOf(nd.visited[i])) = ToKey(IdOf(nd.visited[j]))

\* every identifier met in the input is a string or a number
IdsAreEntityIds ==
    \A i \in 1..Len(nd.visited) : IdOf(nd.visited[i]).t \in {"str", "num"}

\* C1 as stated: denormalizing the result of normalize against its entities
\* yields the input, for every input and schema map normalize accepts.
RoundTripAll == npc = "denormalized" => dn.err = "none" /\ dn.val = nInput

\* C1 amended: the round trip yields the input whenever normalize accepts it,
\* its identifiers are strings or numbers and every two occurrences of the
\* same identifier of the same type in the input are structurally equal.
RoundTrip ==
    (npc = "denormalized" /\ IdsAreEntityIds /\ SameIdSameContent)
        => dn.err = "none" /\ dn.val = nInput

RoundTripWitness ==
    /\ npc = "denormalized"
    /\ IdsAreEntityIds
    /\ SameIdSameContent
    /\ RepeatedId
    /\ nInput.t = "arr"
    /\ Len(nd.visited) > 4
    /\ dn.val = nInput

\* a visited entity with an identifier has a present, non-null relationship
\* field whose target type has no schema
TargetsUnknownType ==
    \E i \in 1..Len(nd.visited) :
        LET v == nd.visited[i]
            schema == SchemaOf(nSchemas, v.type)
        IN  /\ IdOf(v) # Undef
            /\ schema.hasRels
            /\ \E r \in 1..Len(schema.rels) :
                  /\ Get(v.entity, schema.rels[r].key) \notin {Undef, Null}
                  /\ ~SchemaOf(nSchemas, schema.rels[r].type).defined

\* C5: normalize fails with SchemaNotFound when the root type, or the target
\* type of a present non-null relationship field of a visited entity, is
\* absent from the schema map.
SchemaNotFoundOnUnknownType ==
    (npc # "start" /\ (~SchemaOf(nSchemas, nType).defined \/ TargetsUnknownType))
        => nd.err = "SchemaNotFound"

IsId(v) == v.t \in {"str", "num"}

IsIdList(v) == v.t = "arr" /\ \A i \in 1..Len(v.a) : IsId(v.a[i])

\* the input is a single entity in stored form: it has its identifier and
\* its relationship fields hold identifiers, at least one of them
StoredForm ==
    LET schema == SchemaOf(nSchemas, nType)
        idKey == IF schema.idKey = "" THEN "id" ELSE schema.idKey
    IN  /\ nInput.t = "obj"
        /\ schema.defined
        /\ schema.hasRels
        /\ IsId(Get(nInput, idKey))
        /\ \A r \in 1..Len(schema.rels) :
              LET value == Get(nInput, schema.rels[r].key)
              IN  /\ SchemaOf(nSchemas, schema.rels[r].type).defined
                  /\ \/ value = Undef
                     \/ ~schema.rels[r].isArray /\ IsId(value)
                     \/ schema.rels[r].isArray /\ IsIdList(value)
        /\ \E r \in 1..Len(schema.rels) :
              LET value == Get(nInput, schema.rels[r].key)
              IN  IsId(value) \/ (IsIdList(value) /\ value.a # <<>>)

\* C6: normalize accepts an entity whose relationship fields already hold
\* identifiers and stores it with these fields unchanged.
StoredFormAccepted ==
    (npc # "start" /\ StoredForm)
        => /\ nd.err = "none"
           /\ nType \in DOMAIN nd.entities
           /\ Has(nd.entities[nType], ToKey(nd.result))
           /\ Lookup(nd.entities[nType], ToKey(nd.result)) = nInput

\* C7: normalize fails with MissingIdentifier, returning no data, whenever a
\* visited entity has no value at the identifier key of its schema.
MissingIdentifierFails ==
    npc # "start" =>
        \A i \in 1..Len(nd.visited) :
            IdOf(nd.visited[i]) = Undef
                => nd.err = "MissingIdentifier" /\ nd.result = Undef /\ nd.entities = EmptyEntities

MissingIdentifierWitness ==
    /\ npc = "normalized"
    /\ nd.err = "MissingIdentifier"
    /\ Len(nd.visited) >= 3
    /\ nd.visited[Len(nd.visited)].type = "users"
    /\ IdOf(nd.visited[Len(nd.visited)]) = Undef

----------------------------------------------------------------------------
(* The store feature withNormalization *)

\* arguments of the addNormalizedData calls
AddCalls ==
    {<<User("u1", "B"), "users">>,
     <<Comment(Str("c1"), User("u1", "A")), "comments">>,
     <<Comment(Str("c2"), User("u2", "A")), "comments">>,
     <<Comment(Str("c1"), Str("u1")), "comments">>,
     <<Post(Str("p1"), User("u1", "A"),
            Arr(<<Comment(Str("c1"), User("u2", "A")), Comment(Str("c2"), User("u1", "A"))>>)),
       "posts">>,
     <<Post(Str("p1"), User("u2", "A"),
            Arr(<<Comment(Str("c1"), User("u1", "A")), Comment(Str("c2"), AnonUser)>>)),
       "posts">>,
     <<Arr(<<Post(Str("p2"), User("u2", "A"), Arr(<<Comment(Str("c2"), User("u2", "A"))>>))>>),
       "posts">>,
     <<Post(Str("p1"), Undef, Str("c1")), "posts">>,
     <<Comment(Str("c1"), User("c1", "A")), "comments">>,
     <<User("u1", "A"), "ghosts">>}

\* arguments of the removeEntity calls
RemoveCalls ==
    {<<"comments", Str("c1")>>, <<"comments", Str("c2")>>, <<"users", Str("u1")>>,
     <<"posts", Str("p1")>>, <<"users", Str("c1")>>, <<"ghosts", Str("u1")>>}

\* arguments of the updateEntity calls
UpdateCalls ==
    {<<"users", Str("u1"), Obj([name |-> Str("B")])>>,
     <<"users", Str("u2"), Obj([name |-> Str("B")])>>,
     <<"comments", Str("c1"), Obj([author |-> Str("u2")])>>,
     <<"posts", Str("p1"), Obj([comments |-> Arr(<<Str("c2")>>)])>>,
     <<"posts", Str("p1"), Obj([comments |-> Arr(<<Str("c2"), Str("c1")>>)])>>,
     <<"posts", Str("p2"), Obj([author |-> Str("u1")])>>,
     <<"users", Str("c1"), Obj([name |-> Str("B")])>>,
     <<"users", Str("u1"), Obj([username |-> Str("u2")])>>,
     <<"ghosts", Str("u1"), Obj([name |-> Str("B")])>>}

\* store.entities()[type][id] is truthy
Stored(ents, type, id) == type \in DOMAIN ents /\ Has(ents[type], ToKey(id))

\* { ...m, [key]: value } on the loading and the entities records
Assign(m, key, value) ==
    [x \in DOMAIN m \cup {key} |-> IF x = key THEN value ELSE m[x]]

RECURSIVE SpreadDeep(_, _)
\* a merge of entity maps that merges the records of a present key field by field
SpreadDeep(a, b) ==
    IF b = <<>> THEN a
    ELSE LET k == Head(b).k
             v == IF Has(a, k) THEN SpreadObj(Lookup(a, k), Head(b).v) ELSE Head(b).v
         IN  SpreadDeep(Put(a, k, v), Tail(b))

\* Object.entries(normalizedData.entities).forEach(...) over the types in ts
RECURSIVE MergeTypes(_, _, _)

\* the merge of addNormalizedData as a deep merge
MergeTypesDeep(updated, normalized, ts) ==
    IF ts = {} THEN updated
    ELSE LET type == CHOOSE t \in ts : TRUE
             old == IF type \in DOMAIN updated THEN updated[type] ELSE <<>>
         IN  MergeTypes(Assign(updated, type, SpreadDeep(old, normalized[type])),
                        normalized, ts \ {type})

MergeTypes(updated, normalized, ts) ==
    IF ts = {} THEN updated
    ELSE LET type == CHOOSE t \in ts : TRUE
             old == IF type \in DOMAIN updated THEN updated[type] ELSE <<>>
         IN  MergeTypes(Assign(updated, type, Spread(old, normalized[type])),
                        normalized, ts \ {type})

SInit ==
    /\ nInput = Null
    /\ nType = ""
    /\ nSchemas = BlogSchemas
    /\ nd = NoData
    /\ dn = NoOutcome
    /\ npc = "off"
    /\ hw = [blog |-> NoBlogData, utils |-> NoBlogData]
    /\ StoreIdle

\* a write that assigns the collections of types in the objects the store
\* holds: a reader that holds one of these objects sees what it holds now
ReplacedInPlace(ss, types, next) ==
    [i \in 1..Len(ss) |->
        [ss[i] EXCEPT !.seen =
            [t \in DOMAIN next |->
                IF ss[i].top \/ t \in ss[i].colls THEN next[t]
                ELSE IF t \in DOMAIN @ THEN @[t] ELSE <<>>]]]

\* const entities = { ...store.entities() }; entities[type] = { ...entities[type], ... }
\* for the types written; patchState(store, { entities }): the store holds a
\* new top-level object and a new collection object for each of types, the
\* objects the readers hold are assigned nothing
Replaced(ss, types, next) ==
    [i \in 1..Len(ss) |-> [ss[i] EXCEPT !.top = FALSE, !.colls = @ \ types]]

\* a write to the entities signal that leaves the computed signals as they are
NotifyNone(vs) == vs

\* patchState(store, { entities }): the entities signal holds a new object,
\* every computed signal that reads it has to recompute on its next read
Notify(vs) == [i \in 1..Len(vs) |-> [vs[i] EXCEPT !.dirty = TRUE]]

\* the call in progress repeats the last completed call, which succeeded
Repeats(l, call) ==
    /\ l.op = "addNormalizedData"
    /\ l.success
    /\ l.data = call.data
    /\ l.type = call.type

\* addNormalizedData up to the start of the try block
AddStart(data, type) ==
    /\ pc = "idle"
    /\ nops < MaxOps
    /\ nops' = nops + 1
    /\ loading' = Assign(loading, type, TRUE)
    /\ cur' = [data |-> data, type |-> type]
    /\ pc' = "adding"
    /\ UNCHANGED <<schemas, entities, last, views, snaps>>
    /\ UNCHANGED nvars

\* AddFinish that merges what normalize had collected when it failed
AddFinishEager ==
    /\ pc = "adding"
    /\ LET normalizedData == normalize(cur.data, cur.type, schemas)
       IN  /\ entities' = MergeTypes(entities, normalizedData.partial,
                                     DOMAIN normalizedData.partial)
           /\ last' = [op |-> "addNormalizedData", type |-> cur.type, id |-> Undef,
                       threw |-> normalizedData.err,
                       success |-> normalizedData.err = "none", data |-> cur.data,
                       changes |-> Undef, again |-> Repeats(last, cur)]
           /\ views' = Notify(views)
           /\ snaps' = Replaced(snaps, DOMAIN normalizedData.partial, entities')
    /\ loading' = Assign(loading, cur.type, FALSE)
    /\ cur' = NoCall
    /\ pc' = "idle"
    /\ UNCHANGED <<schemas, nops>>
    /\ UNCHANGED nvars

\* AddFinish resetting the loading flag after the merge instead of in a finally block
AddFinishNoFinally ==
    /\ pc = "adding"
    /\ LET normalizedData == normalize(cur.data, cur.type, schemas)
       IN  /\ entities' = IF normalizedData.err = "none"
                          THEN MergeTypes(entities, normalizedData.entities,
                                          DOMAIN normalizedData.entities)
                          ELSE entities
           /\ last' = [op |-> "addNormalizedData", type |-> cur.type, id |-> Undef,
                       threw |-> normalizedData.err,
                       success |-> normalizedData.err = "none", data |-> cur.data,
                       changes |-> Undef, again |-> Repeats(last, cur)]
           /\ views' = IF normalizedData.err = "none" THEN Notify(views) ELSE views
           /\ snaps' = IF normalizedData.err = "none"
                       THEN Replaced(snaps, DOMAIN normalizedData.entities, entities')
                       ELSE snaps
           /\ loading' = IF normalizedData.err = "none"
                         THEN Assign(loading, cur.type, FALSE)
                         ELSE loading
    /\ cur' = NoCall
    /\ pc' = "idle"
    /\ UNCHANGED <<schemas, nops>>
    /\ UNCHANGED nvars

\* the try block and the finally block of addNormalizedData
AddFinish ==
    /\ pc = "adding"
    /\ LET normalizedData == normalize(cur.data, cur.type, schemas)
       IN  /\ entities' = IF normalizedData.err = "none"
                          THEN MergeTypes(entities, normalizedData.entities,
                                          DOMAIN normalizedData.entities)
                          ELSE entities
           /\ last' = [op |-> "addNormalizedData", type |-> cur.type, id |-> Undef,
                       threw |-> normalizedData.err,
                       success |-> normalizedData.err = "none", data |-> cur.data,
                       changes |-> Undef, again |-> Repeats(last, cur)]
           /\ views' = IF normalizedData.err = "none" THEN Notify(views) ELSE views
           /\ snaps' = IF normalizedData.err = "none"
                       THEN Replaced(snaps, DOMAIN normalizedData.entities, entities')
                       ELSE snaps
    /\ loading' = Assign(loading, cur.type, FALSE)
    /\ cur' = NoCall
    /\ pc' = "idle"
    /\ UNCHANGED <<schemas, nops>>
    /\ UNCHANGED nvars

\* the posts collection with id taken out of every comments list
WithoutReference(posts, id) ==
    [i \in 1..Len(posts) |->
        [k |-> posts[i].k,
         v |-> IF posts[i].v.f["comments"].t = "arr"
               THEN [posts[i].v EXCEPT !.f["comments"] =
                         Arr(SelectSeq(@.a, LAMBDA x : x # id))]
               ELSE posts[i].v]]

\* removeEntity that also removes the references to the removed comment
removeEntityCascading(entityType, id) ==
    /\ pc = "idle"
    /\ nops < MaxOps
    /\ nops' = nops + 1
    /\ entities' = IF Stored(entities, entityType, id)
                   THEN LET removed == Assign(entities, entityType,
                                              Del(entities[entityType], ToKey(id)))
                        IN  IF entityType = "comments"
                            THEN Assign(removed, "posts", WithoutReference(removed["posts"], id))
                            ELSE removed
                   ELSE entities
    /\ last' = [op |-> "removeEntity", type |-> entityType, id |-> id, threw |-> "none",
                success |-> Stored(entities, entityType, id), data |-> Undef,
                changes |-> Undef, again |-> FALSE]
    /\ views' = IF Stored(entities, entityType, id) THEN Notify(views) ELSE views
    /\ snaps' = IF Stored(entities, entityType, id)
                THEN Replaced(snaps, {entityType, "posts"}, entities')
                ELSE snaps
    /\ UNCHANGED <<schemas, loading, pc, cur>>
    /\ UNCHANGED nvars

\* removeEntity taking the identifier out of the collection of every type
removeEntityAnyType(entityType, id) ==
    /\ pc = "idle"
    /\ nops < MaxOps
    /\ nops' = nops + 1
    /\ entities' = IF Stored(entities, entityType, id)
                   THEN [t \in DOMAIN entities |-> Del(entities[t], ToKey(id))]
                   ELSE entities
    /\ last' = [op |-> "removeEntity", type |-> entityType, id |-> id, threw |-> "none",
                success |-> Stored(entities, entityType, id), data |-> Undef,
                changes |-> Undef, again |-> FALSE]
    /\ views' = IF Stored(entities, entityType, id) THEN Notify(views) ELSE views
    /\ snaps' = IF Stored(entities, entityType, id)
                THEN Replaced(snaps, DOMAIN entities, entities')
                ELSE snaps
    /\ UNCHANGED <<schemas, loading, pc, cur>>
    /\ UNCHANGED nvars

removeEntity(entityType, id) ==
    /\ pc = "idle"
    /\ nops < MaxOps
    /\ nops' = nops + 1
    /\ entities' = IF Stored(entities, entityType, id)
                   THEN Assign(entities, entityType, Del(entities[entityType], ToKey(id)))
                   ELSE entities
    /\ last' = [op |-> "removeEntity", type |-> entityType, id |-> id, threw |-> "none",
                success |-> Stored(entities, entityType, id), data |-> Undef,
                changes |-> Undef, again |-> FALSE]
    /\ views' = IF Stored(entities, entityType, id) THEN Notify(views) ELSE views
    /\ snaps' = IF Stored(entities, entityType, id)
                THEN Replaced(snaps, {entityType}, entities')
                ELSE snaps
    /\ UNCHANGED <<schemas, loading, pc, cur>>
    /\ UNCHANGED nvars

\* updateEntity that inserts the changes when the identifier is not stored
updateEntityUpsert(entityType, id, changes) ==
    /\ pc = "idle"
    /\ nops < MaxOps
    /\ nops' = nops + 1
    /\ LET map == IF entityType \in DOMAIN entities THEN entities[entityType] ELSE <<>>
           stored == IF Has(map, ToKey(id))
                     THEN SpreadObj(Lookup(map, ToKey(id)), changes)
                     ELSE changes
       IN  /\ entities' = Assign(entities, entityType, Put(map, ToKey(id), stored))
           /\ last' = [op |-> "updateEntity", type |-> entityType, id |-> id,
                       threw |-> "none", success |-> TRUE, data |-> stored,
                       changes |-> changes, again |-> FALSE]
           /\ views' = Notify(views)
           /\ snaps' = Replaced(snaps, {entityType}, entities')
    /\ UNCHANGED <<schemas, loading, pc, cur>>
    /\ UNCHANGED nvars

\* the changes stored in place of the entity
UpdatedReplace(entityType, id, changes) == changes

\* the entity updateEntity stores: { ...entityMap[id], ...changes }
Updated(entityType, id, changes) ==
    SpreadObj(Lookup(entities[entityType], ToKey(id)), changes)

\* updateEntity that returns the merged record without storing it
updateEntityUnstored(entityType, id, changes) ==
    /\ pc = "idle"
    /\ nops < MaxOps
    /\ nops' = nops + 1
    /\ entities' = entities
    /\ last' = [op |-> "updateEntity", type |-> entityType, id |-> id, threw |-> "none",
                success |-> Stored(entities, entityType, id),
                data |-> IF Stored(entities, entityType, id)
                         THEN Updated(entityType, id, changes)
                         ELSE Undef,
                changes |-> changes, again |-> FALSE]
    /\ UNCHANGED <<schemas, loading, pc, cur, views, snaps>>
    /\ UNCHANGED nvars

updateEntity(entityType, id, changes) ==
    /\ pc = "idle"
    /\ nops < MaxOps
    /\ nops' = nops + 1
    /\ IF Stored(entities, entityType, id)
       THEN /\ entities' = Assign(entities, entityType,
                                  Put(entities[entityType], ToKey(id),
                                      Updated(entityType, id, changes)))
            /\ last' = [op |-> "updateEntity", type |-> entityType, id |-> id,
                        threw |-> "none", success |-> TRUE,
                        data |-> Updated(entityType, id, changes),
                        changes |-> changes, again |-> FALSE]
            /\ views' = Notify(views)
            /\ snaps' = Replaced(snaps, {entityType}, entities')
       ELSE /\ entities' = entities
            /\ last' = [op |-> "updateEntity", type |-> entityType, id |-> id,
                        threw |-> "none", success |-> FALSE, data |-> Undef,
                        changes |-> changes, again |-> FALSE]
            /\ views' = views
            /\ snaps' = snaps
    /\ UNCHANGED <<schemas, loading, pc, cur>>
    /\ UNCHANGED nvars

Next ==
    \/ \E call \in AddCalls : AddStart(call[1], call[2])
    \/ AddFinish
    \/ \E call \in RemoveCalls : removeEntity(call[1], call[2])
    \/ \E call \in UpdateCalls : updateEntity(call[1], call[2], call[3])

Spec == SInit /\ [][Next]_vars

-----------------------------------------------------------------------------
(* Specification of the store with its denormalized views: the views are    *)
(* computed signals over store.entities(), created, read and invalidated    *)
(* between the operations of the store                                     *)

\* Object.keys(m): the integer keys in ascending order, then the others in
\* insertion order
ObjectKeys(m) ==
    LET keys == [i \in 1..Len(m) |-> m[i].k]
    IN  SelectSeq(<<"0">> \o NumStr, LAMBDA k : Has(m, k))
            \o SelectSeq(keys, LAMBDA k : k \notin IntegerKeys)

\* the computation of the signal getDenormalizedEntity(type, id) over ents
EntityView(type, id, ents) == denormalize(id, type, ents, schemas)

\* the computation of the signal getDenormalizedEntities(type) over ents
EntitiesView(type, ents) ==
    IF type \notin DOMAIN ents THEN [err |-> "none", val |-> Arr(<<>>), copies |-> <<>>]
    ELSE LET ids == ObjectKeys(ents[type])
         IN  denormalize(Arr([i \in 1..Len(ids) |-> Str(ids[i])]), type, ents, schemas)

\* what the computation of the view v yields over ents
Computation(v, ents) ==
    IF v.kind = "entity" THEN EntityView(v.type, v.id, ents) ELSE EntitiesView(v.type, ents)

\* computed(() => ...): nothing is computed until the first read
computed(kind, type, id) ==
    [kind |-> kind, type |-> type, id |-> id, dirty |-> TRUE, out |-> NoOutcome, runs |-> 0]

getDenormalizedEntity(entityType, id) ==
    /\ pc = "idle"
    /\ nops < MaxOps
    /\ nops' = nops + 1
    /\ views' = Append(views, computed("entity", entityType, id))
    /\ last' = [op |-> "getDenormalizedEntity", type |-> entityType, id |-> id,
                threw |-> "none", success |-> TRUE, data |-> Undef,
                changes |-> Undef, again |-> FALSE]
    /\ UNCHANGED <<schemas, entities, loading, pc, cur, snaps>>
    /\ UNCHANGED nvars

getDenormalizedEntities(entityType) ==
    /\ pc = "idle"
    /\ nops < MaxOps
    /\ nops' = nops + 1
    /\ views' = Append(views, computed("entities", entityType, Undef))
    /\ last' = [op |-> "getDenormalizedEntities", type |-> entityType, id |-> Undef,
                threw |-> "none", success |-> TRUE, data |-> Undef,
                changes |-> Undef, again |-> FALSE]
    /\ UNCHANGED <<schemas, entities, loading, pc, cur, snaps>>
    /\ UNCHANGED nvars

\* a read of the i-th view: the memoized outcome, recomputed first when a
\* write to the entities signal came after the last computation
Read(i) ==
    /\ pc = "idle"
    /\ nops < MaxOps
    /\ nops' = nops + 1
    /\ LET v == views[i]
           out == IF v.dirty THEN Computation(v, entities) ELSE v.out
       IN  /\ views' = [views EXCEPT ![i] = [v EXCEPT !.dirty = FALSE, !.out = out,
                                                     !.runs = IF v.dirty THEN @ + 1 ELSE @]]
           /\ last' = [op |-> "read", type |-> v.type, id |-> v.id,
                       threw |-> out.err, success |-> out.err = "none", data |-> out.val,
                       changes |-> Undef, again |-> FALSE]
    /\ UNCHANGED <<schemas, entities, loading, pc, cur, snaps>>
    /\ UNCHANGED nvars

\* a reader calls store.entities() and keeps the object: it is the object
\* the store holds, as are the collections in it
Snapshot ==
    /\ pc = "idle"
    /\ nops < MaxOps
    /\ nops' = nops + 1
    /\ snaps' = Append(snaps, [taken |-> entities, seen |-> entities, top |-> TRUE,
                               colls |-> DOMAIN entities])
    /\ last' = [op |-> "entities", type |-> "", id |-> Undef, threw |-> "none",
                success |-> TRUE, data |-> Undef, changes |-> Undef, again |-> FALSE]
    /\ UNCHANGED <<schemas, entities, loading, pc, cur, views>>
    /\ UNCHANGED nvars

VAddCalls ==
    {<<Post(Str("p1"), User("u1", "A"),
            Arr(<<Comment(Str("c1"), User("u2", "A")), Comment(Str("c2"), User("u1", "A"))>>)),
       "posts">>,
     <<Comment(Num(1), User("u1", "B")), "comments">>}

VRemoveCalls == {<<"comments", Str("c1")>>}

VUpdateCalls == {<<"users", Str("u1"), Obj([name |-> Str("B")])>>}

\* arguments of the getDenormalizedEntity calls
EntityViewCalls == {<<"posts", Str("p1")>>, <<"comments", Num(1)>>}

\* arguments of the getDenormalizedEntities calls
EntitiesViewCalls == {"comments", "ghosts"}

VNext ==
    \/ \E call \in VAddCalls : AddStart(call[1], call[2])
    \/ AddFinish
    \/ \E call \in VRemoveCalls : removeEntity(call[1], call[2])
    \/ \E call \in VUpdateCalls : updateEntity(call[1], call[2], call[3])
    \/ \E call \in EntityViewCalls : getDenormalizedEntity(call[1], call[2])
    \/ \E type \in EntitiesViewCalls : getDenormalizedEntities(type)
    \/ \E i \in 1..Len(views) : Read(i)

SpecV == SInit /\ [][VNext]_vars

\* the store and readers that keep what store.entities() returned
CNext ==
    \/ \E call \in VAddCalls : AddStart(call[1], call[2])
    \/ AddFinish
    \/ \E call \in VRemoveCalls : removeEntity(call[1], call[2])
    \/ \E call \in VUpdateCalls : updateEntity(call[1], call[2], call[3])
    \/ Snapshot

SpecC == SInit /\ [][CNext]_vars

-----------------------------------------------------------------------------
(* Specification of NormalizedBlogStore: the methods the blog application    *)
(* adds to the store; each method runs to completion before the next call     *)

\* store.getEntityById(entityType, id) over the collections ents
getEntityById(ents, entityType, id) ==
    IF Stored(ents, entityType, id) THEN Lookup(ents[entityType], ToKey(id)) ELSE Null

\* the collections store.updateEntity(entityType, id, changes) leaves, called over ents
UpdatedIn(ents, entityType, id, changes) ==
    IF Stored(ents, entityType, id)
    THEN Assign(ents, entityType,
                Put(ents[entityType], ToKey(id),
                    SpreadObj(Lookup(ents[entityType], ToKey(id)), changes)))
    ELSE ents

\* the collections store.removeEntity(entityType, id) leaves, called over ents
RemovedIn(ents, entityType, id) ==
    IF Stored(ents, entityType, id)
    THEN Assign(ents, entityType, Del(ents[entityType], ToKey(id)))
    ELSE ents

\* the types whose collection object differs between ents and next
Rewritten(ents, next) ==
    {t \in DOMAIN next : t \notin DOMAIN ents \/ next[t] # ents[t]}

\* store.addNormalizedData(sampleBlogData, 'posts')
loadSampleData == AddStart(sampleBlogData, "posts")

\* further nested data given to addNormalizedData: a post that holds comment1
\* of the sample data, twice, and a comment of its own
MoreBlogData ==
    {<<Obj([id |-> Str("post3"),
            author |-> SampleUser("1"),
            body |-> Str("This is the third post content."),
            comments |-> Arr(<<SampleComment("1", "2", "Great post!"),
                               SampleComment("6", "1", "Thanks!"),
                               SampleComment("1", "2", "Great post!")>>)]),
       "posts">>}

\* the values of Date.now() at the calls of addComment
NowVals == {"1700000000001", "1700000000002"}

addComment(postId, comment, now) ==
    /\ pc = "idle"
    /\ nops < MaxOps
    /\ nops' = nops + 1
    /\ LET commentId == Str("comment" \o now)
           newComment == SpreadObj(comment, Obj([id |-> commentId]))
           normalizedData == normalize(newComment, "comments", schemas)
           added == MergeTypes(entities, normalizedData.entities,
                               DOMAIN normalizedData.entities)
           post == getEntityById(added, "posts", postId)
           comments == Get(post, "comments")
           threw == IF normalizedData.err # "none" THEN normalizedData.err
                    ELSE IF Truthy(post) /\ comments.t # "arr" THEN "TypeError"
                    ELSE "none"
       IN  /\ entities' = IF normalizedData.err # "none" THEN entities
                          ELSE IF Truthy(post) /\ comments.t = "arr"
                          THEN UpdatedIn(added, "posts", postId,
                                         Obj([comments |-> Arr(Append(comments.a, commentId))]))
                          ELSE added
           /\ last' = [op |-> "addComment", type |-> "posts", id |-> postId,
                       threw |-> threw, success |-> threw = "none", data |-> newComment,
                       changes |-> Undef, again |-> FALSE]
           /\ views' = IF normalizedData.err = "none" THEN Notify(views) ELSE views
           /\ snaps' = IF normalizedData.err = "none"
                       THEN Replaced(snaps,
                                     DOMAIN normalizedData.entities
                                         \cup Rewritten(entities, entities'),
                                     entities')
                       ELSE snaps
    /\ loading' = Assign(loading, "comments", FALSE)
    /\ UNCHANGED <<schemas, pc, cur>>
    /\ UNCHANGED nvars

updateUserName(username, name) ==
    updateEntity("users", Str(username), Obj([name |-> Str(name)]))

RECURSIVE RemoveReferences(_, _, _, _)
\* posts.forEach((post) => ...) of removeComment from post i on, the store
\* holding the collections ents
RemoveReferences(posts, i, commentId, ents) ==
    IF i > Len(posts) THEN [err |-> "none", ents |-> ents]
    ELSE LET post == posts[i]
             comments == Get(post, "comments")
         IN  IF comments.t # "arr" \/ \E j \in 1..Len(comments.a) : comments.a[j] = Null
             THEN [err |-> "TypeError", ents |-> ents]
             ELSE LET objects == SelectSeq(comments.a, LAMBDA c : c.t \in {"obj", "arr"})
                      postCommentIds == [j \in 1..Len(objects) |-> Get(objects[j], "id")]
                      originalPost == getEntityById(ents, "posts", Get(post, "id"))
                  IN  IF \E j \in 1..Len(postCommentIds) : postCommentIds[j] = commentId
                      THEN IF ~Truthy(originalPost)
                           THEN RemoveReferences(posts, i + 1, commentId, ents)
                           ELSE IF Get(originalPost, "comments").t # "arr"
                           THEN [err |-> "TypeError", ents |-> ents]
                           ELSE RemoveReferences(
                                    posts, i + 1, commentId,
                                    UpdatedIn(ents, "posts", Get(post, "id"),
                                              Obj([comments |->
                                                      Arr(SelectSeq(Get(originalPost, "comments").a,
                                                                    LAMBDA id : id # commentId))])))
                      ELSE RemoveReferences(posts, i + 1, commentId, ents)

\* removeComment that removes the comment and leaves the posts as they are
removeCommentOnly(commentId) ==
    /\ pc = "idle"
    /\ nops < MaxOps
    /\ nops' = nops + 1
    /\ entities' = RemovedIn(entities, "comments", commentId)
    /\ last' = [op |-> "removeComment", type |-> "comments", id |-> commentId,
                threw |-> "none", success |-> TRUE, data |-> Undef,
                changes |-> Undef, again |-> FALSE]
    /\ views' = IF entities' # entities THEN Notify(views) ELSE views
    /\ snaps' = IF entities' # entities
                THEN Replaced(snaps, Rewritten(entities, entities'), entities')
                ELSE snaps
    /\ UNCHANGED <<schemas, loading, pc, cur>>
    /\ UNCHANGED nvars

removeComment(commentId) ==
    /\ pc = "idle"
    /\ nops < MaxOps
    /\ nops' = nops + 1
    /\ LET posts == EntitiesView("posts", entities)
           scan == IF posts.err # "none" THEN [err |-> posts.err, ents |-> entities]
                   ELSE RemoveReferences(posts.val.a, 1, commentId, entities)
       IN  /\ entities' = IF scan.err = "none"
                          THEN RemovedIn(scan.ents, "comments", commentId)
                          ELSE scan.ents
           /\ last' = [op |-> "removeComment", type |-> "comments", id |-> commentId,
                       threw |-> scan.err, success |-> scan.err = "none", data |-> Undef,
                       changes |-> Undef, again |-> FALSE]
    /\ views' = IF entities' # entities THEN Notify(views) ELSE views
    /\ snaps' = IF entities' # entities
                THEN Replaced(snaps, Rewritten(entities, entities'), entities')
                ELSE snaps
    /\ UNCHANGED <<schemas, loading, pc, cur>>
    /\ UNCHANGED nvars

\* arguments of the addComment calls: the author as a username, as the
\* application passes it, and as a nested user
AddCommentCalls ==
    {"post1", "post9"}
        \X {Obj([author |-> Str("user1"), comment |-> Str("This is a new comment!")]),
            Obj([author |-> SampleUser("1"), comment |-> Str("This is a new comment!")])}

\* arguments of the removeComment calls
RemoveCommentCalls ==
    {Str("comment1"), Str("comment3"), Str("comment6"), Str("comment1700000000001"),
     Str("comment9")}

\* arguments of the updateUserName calls
UpdateUserNameCalls == {<<"user1", "User 1 (Updated)">>, <<"user9", "User 9">>}

BNext ==
    \/ loadSampleData
    \/ \E call \in MoreBlogData : AddStart(call[1], call[2])
    \/ AddFinish
    \/ \E call \in AddCommentCalls : \E now \in NowVals : addComment(Str(call[1]), call[2], now)
    \/ \E call \in UpdateUserNameCalls : updateUserName(call[1], call[2])
    \/ \E commentId \in RemoveCommentCalls : removeComment(commentId)

SpecB == SInit /\ [][BNext]_vars

-----------------------------------------------------------------------------
(* The earlier NormalizedBlogStore, whose removeComment tests the            *)
(* denormalized comments of the posts for the identifier                     *)

RECURSIVE RemoveIncluded(_, _, _, _)
\* postsSignal().forEach((post) => ...) of removeComment from post i on, the
\* store holding the collections ents
RemoveIncluded(posts, i, commentId, ents) ==
    IF i > Len(posts) THEN [err |-> "none", ents |-> ents]
    ELSE LET post == posts[i]
             comments == Get(post, "comments")
         IN  IF comments.t # "arr" THEN [err |-> "TypeError", ents |-> ents]
             ELSE IF \E j \in 1..Len(comments.a) : comments.a[j] = commentId
             THEN RemoveIncluded(
                      posts, i + 1, commentId,
                      UpdatedIn(ents, "posts", Get(post, "id"),
                                Obj([comments |->
                                        Arr(SelectSeq(comments.a, LAMBDA id : id # commentId))])))
             ELSE RemoveIncluded(posts, i + 1, commentId, ents)

removeCommentIncludes(commentId) ==
    /\ pc = "idle"
    /\ nops < MaxOps
    /\ nops' = nops + 1
    /\ LET posts == EntitiesView("posts", entities)
           scan == IF posts.err # "none" THEN [err |-> posts.err, ents |-> entities]
                   ELSE RemoveIncluded(posts.val.a, 1, commentId, entities)
       IN  /\ entities' = IF scan.err = "none"
                          THEN RemovedIn(scan.ents, "comments", commentId)
                          ELSE scan.ents
           /\ last' = [op |-> "removeComment", type |-> "comments", id |-> commentId,
                       threw |-> scan.err, success |-> scan.err = "none", data |-> Undef,
                       changes |-> Undef, again |-> FALSE]
    /\ views' = IF entities' # entities THEN Notify(views) ELSE views
    /\ snaps' = IF entities' # entities
                THEN Replaced(snaps, Rewritten(entities, entities'), entities')
                ELSE snaps
    /\ UNCHANGED <<schemas, loading, pc, cur>>
    /\ UNCHANGED nvars

ENext ==
    \/ loadSampleData
    \/ \E call \in MoreBlogData : AddStart(call[1], call[2])
    \/ AddFinish
    \/ \E call \in AddCommentCalls : \E now \in NowVals : addComment(Str(call[1]), call[2], now)
    \/ \E call \in UpdateUserNameCalls : updateUserName(call[1], call[2])
    \/ \E commentId \in RemoveCommentCalls : removeCommentIncludes(commentId)

SpecE == SInit /\ [][ENext]_vars

-----------------------------------------------------------------------------
(* Specification of the two normalizeBlogData functions, applied to arrays  *)
(* of nested posts beside the generic normalize                             *)

\* Object.values(m)
ObjectValues(m) ==
    LET keys == ObjectKeys(m)
    IN  [i \in 1..Len(keys) |-> Lookup(m, keys[i])]

\* the comment of transformedComments for the nested comment c
TransformedComment(c) ==
    Obj([id |-> Get(c, "id"),
         author |-> Get(Get(c, "author"), "username"),
         comment |-> Get(c, "comment")])

\* the post of transformedData for the nested post
TransformedPost(post) ==
    Obj([id |-> Get(post, "id"),
         author |-> Get(Get(post, "author"), "username"),
         body |-> Get(post, "body"),
         comments |-> Arr([j \in 1..Len(Get(post, "comments").a) |->
                              TransformedComment(Get(post, "comments").a[j])])])

\* the property reads of the transformation succeed
Transformable(blogPosts) ==
    \A i \in 1..Len(blogPosts) :
        /\ CanRead(blogPosts[i])
        /\ CanRead(Get(blogPosts[i], "author"))
        /\ Get(blogPosts[i], "comments").t = "arr"
        /\ \A j \in 1..Len(Get(blogPosts[i], "comments").a) :
              /\ CanRead(Get(blogPosts[i], "comments").a[j])
              /\ CanRead(Get(Get(blogPosts[i], "comments").a[j], "author"))

\* normalizeBlogData of blog.normalizers.ts
normalizeBlogData(blogPosts) ==
    IF ~Transformable(blogPosts)
    THEN [done |-> TRUE, err |-> "TypeError", users |-> <<>>, comments |-> <<>>, posts |-> <<>>]
    ELSE LET transformedData == Arr([i \in 1..Len(blogPosts) |-> TransformedPost(blogPosts[i])])
             normalizedData == normalize(transformedData, "posts", BlogSchemas)
             Of(t) == IF t \in DOMAIN normalizedData.entities
                      THEN ObjectValues(normalizedData.entities[t])
                      ELSE <<>>
         IN  IF normalizedData.err # "none"
             THEN [done |-> TRUE, err |-> normalizedData.err,
                   users |-> <<>>, comments |-> <<>>, posts |-> <<>>]
             ELSE [done |-> TRUE, err |-> "none",
                   users |-> Of("users"), comments |-> Of("comments"), posts |-> Of("posts")]

\* if (!users[author.username]) users[author.username] = { username, name }
AddAuthor(users, author) ==
    IF Has(users, ToKey(Get(author, "username"))) THEN users
    ELSE Put(users, ToKey(Get(author, "username")),
             Obj([username |-> Get(author, "username"), name |-> Get(author, "name")]))

RECURSIVE UtilsComments(_, _, _)
\* post.comments.forEach((comment) => ...) from comment j on; st holds users,
\* comments and commentIds
UtilsComments(items, j, st) ==
    IF j > Len(items) THEN st
    ELSE LET comment == items[j]
         IN  UtilsComments(
                 items, j + 1,
                 [users |-> AddAuthor(st.users, Get(comment, "author")),
                  comments |-> Put(st.comments, ToKey(Get(comment, "id")),
                                   Obj([id |-> Get(comment, "id"),
                                        author |-> Get(Get(comment, "author"), "username"),
                                        comment |-> Get(comment, "comment")])),
                  commentIds |-> Append(st.commentIds, Get(comment, "id"))])

RECURSIVE UtilsPosts(_, _, _)
\* blogPosts.forEach(post => ...) from post i on; st holds users, comments and posts
UtilsPosts(blogPosts, i, st) ==
    IF i > Len(blogPosts) THEN st
    ELSE LET post == blogPosts[i]
             r == UtilsComments(Get(post, "comments").a, 1,
                                [users |-> AddAuthor(st.users, Get(post, "author")),
                                 comments |-> st.comments,
                                 commentIds |-> <<>>])
         IN  UtilsPosts(
                 blogPosts, i + 1,
                 [users |-> r.users,
                  comments |-> r.comments,
                  posts |-> Put(st.posts, ToKey(Get(post, "id")),
                                Obj([id |-> Get(post, "id"),
                                     author |-> Get(Get(post, "author"), "username"),
                                     body |-> Get(post, "body"),
                                     comments |-> Arr(r.commentIds)]))])

\* normalizeBlogData of normalization.utils
normalizeBlogDataUtils(blogPosts) ==
    IF ~Transformable(blogPosts)
    THEN [done |-> TRUE, err |-> "TypeError", users |-> <<>>, comments |-> <<>>, posts |-> <<>>]
    ELSE LET r == UtilsPosts(blogPosts, 1, [users |-> <<>>, comments |-> <<>>, posts |-> <<>>])
         IN  [done |-> TRUE, err |-> "none",
              users |-> ObjectValues(r.users),
              comments |-> ObjectValues(r.comments),
              posts |-> ObjectValues(r.posts)]

NestedComment(c, a, text) == Obj([id |-> Str(c), author |-> a, comment |-> Str(text)])

NestedPost(p, a, cs) ==
    Obj([id |-> Str(p), author |-> a, body |-> Str("Body"), comments |-> Arr(cs)])

\* lists of nested comments: none, one, two, the same comment twice with
\* differing text, and authors met before with another name
NestedComments ==
    {<<>>,
     <<NestedComment("c1", User("u1", "B"), "One")>>,
     <<NestedComment("c1", User("u2", "A"), "One"), NestedComment("c2", User("u1", "A"), "Two")>>,
     <<NestedComment("c1", User("u1", "A"), "One"), NestedComment("c1", User("u1", "A"), "Two")>>}

NestedPosts ==
    {NestedPost(p, a, cs) : p \in {"p1", "p2"}, a \in {User("u1", "A"), User("u2", "A")},
                            cs \in NestedComments}

NestedPostArrays == {Arr(s) : s \in SeqsUpTo(NestedPosts, MaxLen)} \cup {sampleBlogData}

HInit ==
    /\ nInput \in NestedPostArrays
    /\ nType = "posts"
    /\ nSchemas = BlogSchemas
    /\ nd = NoData
    /\ dn = NoOutcome
    /\ npc = "start"
    /\ hw = [blog |-> NoBlogData, utils |-> NoBlogData]
    /\ StoreIdle

NormalizeBlogData ==
    /\ ~hw.blog.done
    /\ hw' = [hw EXCEPT !.blog = normalizeBlogData(nInput.a)]
    /\ UNCHANGED <<nInput, nType, nSchemas, nd, dn, npc>>
    /\ UNCHANGED svars

NormalizeBlogDataUtils ==
    /\ ~hw.utils.done
    /\ hw' = [hw EXCEPT !.utils = normalizeBlogDataUtils(nInput.a)]
    /\ UNCHANGED <<nInput, nType, nSchemas, nd, dn, npc>>
    /\ UNCHANGED svars

HNext == Normalize \/ NormalizeBlogData \/ NormalizeBlogDataUtils

SpecH == HInit /\ [][HNext]_vars

----------------------------------------------------------------------------
(* Properties of the store and of denormalize over its states, checked under Spec *)

ProbeIds == {Str("u1"), Str("c1"), Str("c2"), Str("p1"), Str("x"), Num(1)}

\* the identifiers of ids that are stored in the collection of type, in order
Present(ids, type) == SelectSeq(ids, LAMBDA id : Stored(entities, type, id))

\* the denormalized view of the stored entity with key k
View(ents, type, k) == denormalize(Str(k), type, ents, schemas).val

\* a step of removeEntity("comments", c)
RemovesComment(c) ==
    /\ nops' = nops + 1
    /\ pc' = "idle"
    /\ last'.op = "removeEntity"
    /\ last'.type = "comments"
    /\ last'.id = c

\* C2: removeEntity("comments", c) leaves the stored record of every post
\* that lists c unchanged, c still in its raw list, and the post's
\* denormalized comments are the previous ones without the entry for c: the
\* resolved entries of the other identifiers of the raw list, in order.
RemoveNonCascading ==
    [][\A c \in {Str("c1"), Str("c2")} :
          RemovesComment(c) =>
              \A i \in 1..Len(entities["posts"]) :
                  LET post == entities["posts"][i]
                      raw == post.v.f["comments"]
                  IN  (raw.t = "arr" /\ \E j \in 1..Len(raw.a) : raw.a[j] = c)
                      => /\ i <= Len(entities'["posts"])
                         /\ entities'["posts"][i] = post
                         /\ View(entities', "posts", post.k).f["comments"] =
                                denormalize(Arr(SelectSeq(raw.a, LAMBDA id : id # c)),
                                            "comments", entities, schemas).val]_vars

RemoveNonCascadingWitness ==
    /\ last.op = "removeEntity"
    /\ last.type = "comments"
    /\ last.success
    /\ \E i \in 1..Len(entities["posts"]) :
          LET post == entities["posts"][i]
              raw == post.v.f["comments"]
          IN  /\ raw.t = "arr"
              /\ \E j \in 1..Len(raw.a) : raw.a[j] = last.id
              /\ Len(View(entities, "posts", post.k).f["comments"].a) = Len(raw.a) - 1
              /\ Len(raw.a) = 2

\* C3: updateEntity on an identifier or a type that is not stored returns a
\* failure result, does not throw and leaves the entities unchanged.
UpdateMissingFails ==
    [][(/\ nops' = nops + 1
        /\ pc' = "idle"
        /\ last'.op = "updateEntity"
        /\ ~Stored(entities, last'.type, last'.id))
       => (~last'.success /\ last'.threw = "none" /\ entities' = entities)]_vars

UpdateMissingWitness ==
    /\ last.op = "updateEntity"
    /\ ~last.success
    /\ last.type = "users"
    /\ last.id = Str("c1")
    /\ Len(entities["users"]) > 0

\* C4: addNormalizedData sets loading[type] at its start and clears it at its
\* end, also when normalize throws; between operations no flag is set.
LoadingNeverSticks ==
    /\ [](pc = "idle" => \A t \in DOMAIN loading : ~loading[t])
    /\ [][/\ (pc = "idle" /\ pc' = "adding") => loading'[cur'.type]
          /\ (pc = "adding" /\ pc' = "idle") => ~loading'[cur.type]]_vars

LoadingWitness ==
    /\ pc = "idle"
    /\ last.op = "addNormalizedData"
    /\ last.threw = "MissingIdentifier"
    /\ last.type \in DOMAIN loading
    /\ ~loading[last.type]

\* C8: denormalize of a single identifier is null, without failure, when the
\* collection of the type or the identifier in it is absent, whatever the
\* schema map, also one without the type.
DenormalizeAbsentIsNull ==
    \A sm \in SchemaMaps, t \in TypeNames, id \in ProbeIds :
        ~Stored(entities, t, id)
            => denormalize(id, t, entities, sm) = [err |-> "none", val |-> Null, copies |-> <<>>]

DenormalizeAbsentWitness ==
    /\ Stored(entities, "users", Str("u1"))
    /\ Stored(entities, "posts", Str("p1"))
    /\ ~Stored(entities, "users", Str("p1"))
    /\ denormalize(Str("p1"), "users", entities, NoPostsSchemas).val = Null
    /\ "ghosts" \notin DOMAIN entities
    /\ denormalize(Str("u1"), "ghosts", entities, NoPostsSchemas).val = Null

\* the stored entity has a present, non-null relationship field whose target
\* type has no schema in sm
ResolvesUnknownType(sm, t, id) ==
    /\ Stored(entities, t, id)
    /\ SchemaOf(sm, t).hasRels
    /\ \E r \in 1..Len(SchemaOf(sm, t).rels) :
          LET rc == SchemaOf(sm, t).rels[r]
              value == Lookup(entities[t], ToKey(id)).f[rc.key]
          IN  /\ ~SchemaOf(sm, rc.type).defined
              /\ value \notin {Undef, Null}
              /\ rc.isArray <=> value.t = "arr"

\* C9: denormalize fails with SchemaNotFound whenever the requested type, or
\* the target type of a relationship field it resolves, has no schema.
DenormalizeUnknownTypeFails ==
    \A sm \in SchemaMaps, t \in TypeNames, id \in ProbeIds :
        (~SchemaOf(sm, t).defined \/ ResolvesUnknownType(sm, t, id))
            => denormalize(id, t, entities, sm).err = "SchemaNotFound"

\* C10: in a plural relationship field and in a top-level array the
\* identifiers absent from the target collection are dropped and the others
\* resolved in order; an absent identifier in a singular field yields null.
DanglingDropped ==
    /\ \A t \in DOMAIN schemas :
          \A i \in 1..Len(entities[t]), r \in 1..Len(schemas[t].rels) :
              LET rc == schemas[t].rels[r]
                  value == entities[t][i].v.f[rc.key]
                  view == View(entities, t, entities[t][i].k).f[rc.key]
              IN  /\ (rc.isArray /\ value.t = "arr")
                      => /\ view.t = "arr"
                         /\ Len(view.a) = Len(Present(value.a, rc.type))
                         /\ \A j \in 1..Len(view.a) :
                               view.a[j] = denormalize(Present(value.a, rc.type)[j], rc.type,
                                                       entities, schemas).val
                  /\ (~rc.isArray /\ value \notin {Undef, Null}
                        /\ ~Stored(entities, rc.type, value))
                      => view = Null
    /\ \A t \in TypeNames, ids \in SeqsUpTo({Str("c1"), Str("c2"), Str("u1")}, 2) :
          LET view == denormalize(Arr(ids), t, entities, schemas).val
          IN  /\ view.t = "arr"
              /\ Len(view.a) = Len(Present(ids, t))
              /\ \A j \in 1..Len(view.a) :
                    view.a[j] = denormalize(Present(ids, t)[j], t, entities, schemas).val

DanglingWitness ==
    /\ \E i \in 1..Len(entities["posts"]) :
          LET post == entities["posts"][i].v
          IN  /\ post.f["comments"] = Arr(<<Str("c1"), Str("c2")>>)
              /\ ~Stored(entities, "comments", Str("c1"))
              /\ Stored(entities, "comments", Str("c2"))
              /\ ~Stored(entities, "users", post.f["author"])
    /\ Len(denormalize(Arr(<<Str("c1"), Str("c2")>>), "comments", entities, schemas).val.a) = 1

----------------------------------------------------------------------------
(* Further properties of normalize, checked under SpecN *)

\* C11: no record normalize produces holds an embedded object, alone or in a
\* list, in a relationship field of its schema; the field holds identifiers.
OnlyIdentifiersStored ==
    (npc # "start" /\ nd.err = "none") =>
        \A t \in DOMAIN nd.entities :
            \A i \in 1..Len(nd.entities[t]), r \in 1..Len(SchemaOf(nSchemas, t).rels) :
                LET value == nd.entities[t][i].v.f[SchemaOf(nSchemas, t).rels[r].key]
                IN  /\ value.t # "obj"
                    /\ value.t = "arr" => \A j \in 1..Len(value.a) : value.a[j].t # "obj"

\* the identifiers of the entities of type t normalize met in the input
Encountered(t) ==
    {IdOf(nd.visited[i]) : i \in {j \in 1..Len(nd.visited) : nd.visited[j].type = t}}

\* the collection normalize produced for type t
Collection(t) == IF t \in DOMAIN nd.entities THEN nd.entities[t] ELSE <<>>

Keys(m) == {m[i].k : i \in 1..Len(m)}

\* C14 as stated: each collection normalize produces has one key for every
\* distinct identifier of its type met in the input.
OneKeyPerIdentifier ==
    (npc # "start" /\ nd.err = "none") =>
        \A t \in TypeNames :
            /\ Keys(Collection(t)) = {ToKey(id) : id \in Encountered(t)}
            /\ Len(Collection(t)) = Cardinality(Encountered(t))

\* C14 amended: each collection normalize produces has one key for every
\* identifier of its type met in the input, identifiers being distinct when
\* they differ as property keys.
OneKeyPerIdentifierKey ==
    (npc # "start" /\ nd.err = "none") =>
        \A t \in TypeNames :
            /\ Keys(Collection(t)) = {ToKey(id) : id \in Encountered(t)}
            /\ Len(Collection(t)) = Cardinality({ToKey(id) : id \in Encountered(t)})

\* an array of two posts whose nested comments and authors overlap was normalized
OneKeyWitness ==
    /\ npc # "start"
    /\ nd.err = "none"
    /\ nInput.t = "arr"
    /\ Len(nInput.a) = 2
    /\ RepeatedId
    /\ Len(Collection("users")) = 2
    /\ Len(Collection("comments")) = 2
    /\ Len(nd.visited) > 6

\* the identifier key of the schema of type t
IdKeyOf(t) == IF SchemaOf(nSchemas, t).idKey = "" THEN "id" ELSE SchemaOf(nSchemas, t).idKey

\* the identifiers of the objects of the list items of type t, in order
IdsOf(items, t) == Arr([i \in 1..Len(items) |-> Get(items[i], IdKeyOf(t))])

\* the record rec holds, in every plural relationship field in which the
\* entity of the visit v holds a list, the identifiers of that list in order
ListsKept(rec, v) ==
    \A r \in 1..Len(SchemaOf(nSchemas, v.type).rels) :
        LET rc == SchemaOf(nSchemas, v.type).rels[r]
        IN  (rc.isArray /\ v.entity.f[rc.key].t = "arr")
                => rec.f[rc.key] = IdsOf(v.entity.f[rc.key].a, rc.type)

\* C18: normalize replaces the top-level array by the identifiers of its
\* elements and every list in a plural relationship field by the identifiers
\* of its elements, same length and same order; a single object yields its
\* identifier as result.
OrderAndShapeKept ==
    (npc # "start" /\ nd.err = "none") =>
        /\ nInput.t = "arr" => nd.result = IdsOf(nInput.a, nType)
        /\ nInput.t = "obj" => nd.result = Get(nInput, IdKeyOf(nType)) /\ nd.result.t # "arr"
        /\ \A t \in DOMAIN nd.entities :
              \A i \in 1..Len(nd.entities[t]) :
                  \E j \in 1..Len(nd.visited) :
                      /\ nd.visited[j].type = t
                      /\ ToKey(IdOf(nd.visited[j])) = nd.entities[t][i].k
                      /\ ListsKept(nd.entities[t][i].v, nd.visited[j])

\* an array of two posts was normalized, one of them with the comments c2, c1
OrderAndShapeWitness ==
    /\ npc # "start"
    /\ nd.err = "none"
    /\ nInput.t = "arr"
    /\ nd.result = Arr(<<Str("p2"), Str("p1")>>)
    /\ \E i \in 1..Len(Collection("posts")) :
          Collection("posts")[i].v.f["comments"] = Arr(<<Str("c2"), Str("c1")>>)

\* the values one level into v: v itself, and its elements when it is a list
Items(v) ==
    IF v.t = "arr" THEN {v} \cup {v.a[i] : i \in 1..Len(v.a)}
    ELSE IF v.t \in {"undef", "null"} THEN {} ELSE {v}

RECURSIVE Level(_, _)
\* the values nested d levels deep in the value v: v or its elements at level
\* 1, then the property values of the objects one level higher
Level(v, d) ==
    IF d = 1 THEN Items(v)
    ELSE UNION {UNION {Items(o.f[k]) : k \in Fields} : o \in {x \in Level(v, d - 1) : x.t = "obj"}}

RECURSIVE NestingDepth(_)
\* the number of levels of the value v
NestingDepth(v) ==
    LET Max(S) == IF S = {} THEN 0 ELSE CHOOSE m \in S : \A x \in S : x <= m
    IN  CASE v.t = "obj" -> 1 + Max({NestingDepth(v.f[k]) : k \in Fields})
          [] v.t = "arr" -> Max({1} \cup {NestingDepth(v.a[i]) : i \in 1..Len(v.a)})
          [] v.t \in {"undef", "null"} -> 0
          [] OTHER -> 1

\* C23: normalize comes to an outcome on every input, also under a schema
\* map whose relationships form a cycle between types: a call of
\* processEntity nested d deep is given a value nested d levels deep in the
\* input, so no call is nested deeper than the input is.
NormalizeBounded ==
    npc # "start" =>
        \A i \in 1..Len(nd.visited) :
            /\ nd.visited[i].entity \in Level(nInput, nd.visited[i].depth)
            /\ nd.visited[i].depth <= NestingDepth(nInput)

\* a thread of four nested comments was normalized under the schema map in
\* which comments have comments and users have comments
NormalizeBoundedWitness ==
    /\ npc # "start"
    /\ nSchemas = ThreadSchemas
    /\ nd.err = "none"
    /\ NestingDepth(nInput) = 5
    /\ \E i \in 1..Len(nd.visited) : nd.visited[i].depth = 4

\* the entities normalize stored, as <<type, key>>
StoredNodes == UNION {{<<t, k>> : k \in Keys(nd.entities[t])} : t \in DOMAIN nd.entities}

\* the stored entities the stored entity n refers to in the relationship
\* fields of its schema
Successors(n) ==
    LET rec == Lookup(nd.entities[n[1]], n[2])
        rels == SchemaOf(nSchemas, n[1]).rels
        Refs(rc) ==
            LET value == rec.f[rc.key]
            IN  IF rc.isArray /\ value.t = "arr"
                THEN {<<rc.type, ToKey(value.a[j])>> : j \in 1..Len(value.a)}
                ELSE IF ~rc.isArray /\ value \notin {Undef, Null}
                THEN {<<rc.type, ToKey(value)>>}
                ELSE {}
    IN  UNION {Refs(rels[r]) : r \in 1..Len(rels)} \cap StoredNodes

RECURSIVE Closure(_)
\* the entities of S and those reachable from them
Closure(S) ==
    LET next == S \cup UNION {Successors(n) : n \in S}
    IN  IF next = S THEN S ELSE Closure(next)

\* the stored entities denormalize is asked for
Roots ==
    (IF nd.result.t = "arr"
     THEN {<<nType, ToKey(nd.result.a[i])>> : i \in 1..Len(nd.result.a)}
     ELSE {<<nType, ToKey(nd.result)>>}) \cap StoredNodes

\* an entity reachable from the requested ones is reachable from itself
CycleReachable == \E n \in Closure(Roots) : n \in Closure(Successors(n))

RECURSIVE Height(_)
\* the length of the longest chain of references from n, where there is no cycle
Height(n) ==
    LET hs == {Height(m) : m \in Successors(n)}
    IN  1 + (IF hs = {} THEN 0 ELSE CHOOSE h \in hs : \A x \in hs : x <= h)

\* C24: denormalize recurses without bound (the call stack overflows) when
\* the stored entities reachable from the requested identifiers through the
\* relationship fields have a reference cycle, and comes to a result when
\* they have none.
DenormalizeCycles ==
    npc = "denormalized" =>
        /\ CycleReachable => dn.err = "RangeError"
        /\ (~CycleReachable /\ \A n \in Roots : Height(n) <= MaxDepth)
              => dn.err # "RangeError"

\* a comment whose author has that comment among its comments was normalized
\* and asked for
DenormalizeCyclesWitness ==
    /\ npc = "denormalized"
    /\ nSchemas = ThreadSchemas
    /\ CycleReachable
    /\ <<"users", "u1">> \in Closure(Roots)
    /\ dn.err = "RangeError"

\* C38: the entities normalize stores for a finite nested input have no
\* reference cycle, whatever the schema map, so that no denormalize over them
\* recurses without bound.
NormalizeStoresNoCycle ==
    /\ (npc # "start" /\ nd.err = "none") =>
           \A n \in StoredNodes : n \notin Closure(Successors(n))
    /\ npc = "denormalized" => ~(CycleReachable /\ dn.err = "RangeError")

\* C25: normalizing the sample blog data with root type posts yields 3 users,
\* 5 comments and 2 posts with result [post1, post2], and denormalizing
\* post1 yields its author resolved to the record of user1 and its comments
\* resolved to the records of comment1 and comment2, in that order, each with
\* its own author resolved.
SampleDataNormalized ==
    (npc # "start" /\ nInput = sampleBlogData /\ nType = "posts" /\ nSchemas = BlogSchemas) =>
        /\ nd.err = "none"
        /\ Keys(Collection("users")) = {"user1", "user2", "user3"}
        /\ Len(Collection("users")) = 3
        /\ Keys(Collection("comments")) =
               {"comment1", "comment2", "comment3", "comment4", "comment5"}
        /\ Len(Collection("comments")) = 5
        /\ Keys(Collection("posts")) = {"post1", "post2"}
        /\ Len(Collection("posts")) = 2
        /\ nd.result = Arr(<<Str("post1"), Str("post2")>>)
        /\ LET post1 == denormalize(Str("post1"), "posts", nd.entities, nSchemas)
           IN  /\ post1.err = "none"
               /\ post1.val.f["id"] = Str("post1")
               /\ post1.val.f["author"] =
                      Obj([username |-> Str("user1"), name |-> Str("User 1")])
               /\ post1.val.f["comments"] =
                      Arr(<<Obj([id |-> Str("comment1"),
                                 author |-> Obj([username |-> Str("user2"),
                                                 name |-> Str("User 2")]),
                                 comment |-> Str("Great post!")]),
                            Obj([id |-> Str("comment2"),
                                 author |-> Obj([username |-> Str("user3"),
                                                 name |-> Str("User 3")]),
                                 comment |-> Str("I learned a lot from this.")])>>)

SampleDataWitness ==
    /\ npc = "denormalized"
    /\ nInput = sampleBlogData
    /\ nType = "posts"
    /\ nSchemas = BlogSchemas
    /\ Len(nd.visited) = 14
    /\ dn.val = sampleBlogData

\* the call of entry i of the log encloses the call of entry j
Encloses(i, j) ==
    /\ i < j
    /\ \A m \in (i + 1)..j : nd.visited[m].depth > nd.visited[i].depth

\* the call of entry i returns before the call of entry j does
FinishesBefore(i, j) == Encloses(j, i) \/ (i < j /\ ~Encloses(i, j))

\* the entries of the log for the identifier key k of type t
Occurrences(t, k) ==
    {i \in 1..Len(nd.visited) :
        nd.visited[i].type = t /\ ToKey(IdOf(nd.visited[i])) = k}

\* the record of the occurrence v: its relationship fields hold identifiers
Flat(v) ==
    LET schema == SchemaOf(nSchemas, v.type)
        rels == IF schema.hasRels THEN schema.rels ELSE <<>>
        Of(f) ==
            IF \E r \in 1..Len(rels) : rels[r].key = f
            THEN LET rc == rels[CHOOSE r \in 1..Len(rels) : rels[r].key = f]
                     value == v.entity.f[f]
                 IN  IF rc.isArray /\ value.t = "arr" THEN IdsOf(value.a, rc.type)
                     ELSE IF ~rc.isArray /\ value # Undef /\ value # Null
                     THEN Get(value, IdKeyOf(rc.type))
                     ELSE value
            ELSE v.entity.f[f]
    IN  [v.entity EXCEPT !.f = [f \in Fields |-> Of(f)]]

\* C27: when an identifier of one type occurs several times in the input of
\* one normalize call, the collection holds the record of the occurrence whose
\* processing finishes last: an enclosing occurrence finishes after the ones
\* nested inside it, a later list element after an earlier one.
LastWriteWins ==
    (npc # "start" /\ nd.err = "none") =>
        \A t \in DOMAIN nd.entities :
            \A k \in Keys(nd.entities[t]) :
                \E i \in Occurrences(t, k) :
                    /\ \A j \in Occurrences(t, k) \ {i} : FinishesBefore(j, i)
                    /\ Lookup(nd.entities[t], k) = Flat(nd.visited[i])

\* an occurrence of comment c1 encloses another one with another record
EnclosingWinsWitness ==
    /\ npc # "start"
    /\ nd.err = "none"
    /\ \E i, j \in Occurrences("comments", "c1") :
          /\ Encloses(i, j)
          /\ Flat(nd.visited[i]) # Flat(nd.visited[j])
          /\ Lookup(nd.entities["comments"], "c1") = Flat(nd.visited[i])

\* of two occurrences of comment c1 at one level the later one is stored
LaterElementWinsWitness ==
    /\ npc # "start"
    /\ nd.err = "none"
    /\ nType = "posts"
    /\ \E i, j \in Occurrences("comments", "c1") :
          /\ j < i
          /\ nd.visited[i].depth = nd.visited[j].depth
          /\ Flat(nd.visited[i]) # Flat(nd.visited[j])
          /\ Lookup(nd.entities["comments"], "c1") = Flat(nd.visited[i])

-----------------------------------------------------------------------------
(* Further properties of the store, checked under Spec *)

\* C12: in every state of the store, no denormalized entity holds a raw
\* identifier, alone or in a list, in a relationship field of its schema; the
\* field holds resolved entities, null or nothing.
OnlyResolvedInViews ==
    \A t \in DOMAIN schemas :
        \A i \in 1..Len(entities[t]), r \in 1..Len(schemas[t].rels) :
            LET view == denormalize(Str(entities[t][i].k), t, entities, schemas)
                value == Get(view.val, schemas[t].rels[r].key)
            IN  (view.err = "none" /\ view.val # Null) =>
                    /\ ~IsId(value)
                    /\ value.t = "arr" => \A j \in 1..Len(value.a) : ~IsId(value.a[j])

\* C13: addNormalizedData called a second time in succession with the same
\* data and type leaves every entity collection as the first call left it.
AddTwiceIsAddOnce ==
    [][(pc = "adding" /\ pc' = "idle" /\ last.op = "addNormalizedData"
            /\ last.data = cur.data /\ last.type = cur.type)
        => entities' = entities]_vars

\* a post with two nested comments and two users has been added twice in succession
AddTwiceWitness ==
    /\ pc = "idle"
    /\ last.op = "addNormalizedData"
    /\ last.again
    /\ last.type = "posts"
    /\ Len(entities["comments"]) = 2
    /\ Len(entities["users"]) = 2

\* the record stored under key k in the collection of type t, or nothing
RecordAt(ents, t, k) ==
    IF t \in DOMAIN ents /\ Has(ents[t], k) THEN Lookup(ents[t], k) ELSE Undef

\* the keys of the collection of type t
KeysAt(ents, t) == IF t \in DOMAIN ents THEN Keys(ents[t]) ELSE {}

\* C15: a successful addNormalizedData(data, type) leaves every identifier
\* that normalizing data produced mapped to exactly its newly normalized
\* record and every other stored entity, of every type, as it was.
AddReplaces ==
    [][(pc = "adding" /\ pc' = "idle" /\ last'.success) =>
        LET produced == normalize(cur.data, cur.type, schemas).entities
            types == DOMAIN entities \cup DOMAIN produced
        IN  /\ DOMAIN entities' = types
            /\ \A t \in types :
                  /\ KeysAt(entities', t) = KeysAt(entities, t) \cup KeysAt(produced, t)
                  /\ \A k \in KeysAt(entities', t) :
                        RecordAt(entities', t, k) =
                            IF k \in KeysAt(produced, t)
                            THEN RecordAt(produced, t, k)
                            ELSE RecordAt(entities, t, k)]_vars

\* the post p1, stored with an author and two comments by the first call, was
\* added again without author: the stored record has no author any more
AddReplacesWitness ==
    /\ pc = "idle"
    /\ nops = 2
    /\ last.op = "addNormalizedData"
    /\ last.success
    /\ last.data = Post(Str("p1"), Undef, Str("c1"))
    /\ Len(entities["comments"]) = 2
    /\ Len(entities["users"]) = 2
    /\ RecordAt(entities, "posts", "p1") = Post(Str("p1"), Undef, Str("c1"))

\* the entities other than the one of type t with key k are in next what they
\* are in ents: the same keys in every type and the same record under each
OthersUnchanged(ents, next, t, k) ==
    /\ DOMAIN next = DOMAIN ents
    /\ \A t2 \in DOMAIN ents :
          /\ KeysAt(next, t2) \ (IF t2 = t THEN {k} ELSE {})
                = KeysAt(ents, t2) \ (IF t2 = t THEN {k} ELSE {})
          /\ \A k2 \in KeysAt(ents, t2) :
                (t2 # t \/ k2 # k) => RecordAt(next, t2, k2) = RecordAt(ents, t2, k2)

\* C16: updateEntity(type, id, changes) on a stored identifier leaves the
\* record with the value of changes in every field of changes and its previous
\* value in every other field, returns success with that record, and leaves
\* all other entities of every type unchanged.
UpdateMerges ==
    [][(/\ nops' = nops + 1
        /\ pc' = "idle"
        /\ last'.op = "updateEntity"
        /\ Stored(entities, last'.type, last'.id)) =>
        LET k == ToKey(last'.id)
            old == RecordAt(entities, last'.type, k)
            new == RecordAt(entities', last'.type, k)
        IN  /\ new # Undef
            /\ \A f \in Fields :
                  new.f[f] = IF last'.changes.f[f] # Undef
                             THEN last'.changes.f[f]
                             ELSE old.f[f]
            /\ last'.success
            /\ last'.threw = "none"
            /\ last'.data = new
            /\ OthersUnchanged(entities, entities', last'.type, k)]_vars

\* the comments of the post p1, stored with an author and two comments by the
\* first call, were set to the one comment c2
UpdateMergesWitness ==
    /\ nops = 2
    /\ last.op = "updateEntity"
    /\ last.success
    /\ last.changes = Obj([comments |-> Arr(<<Str("c2")>>)])
    /\ last.data = Post(Str("p1"), Str("u1"), Arr(<<Str("c2")>>))
    /\ RecordAt(entities, "posts", "p1") = last.data
    /\ Len(entities["comments"]) = 2

\* C17: removeEntity(type, id) takes exactly the entry of id out of the
\* collection of type when it is there and changes no other entity, no other
\* type and no loading flag; when id or type is absent nothing changes, and
\* it does not fail either way.
RemoveDeletesExactly ==
    [][(nops' = nops + 1 /\ pc' = "idle" /\ last'.op = "removeEntity") =>
        LET k == ToKey(last'.id)
        IN  /\ last'.threw = "none"
            /\ loading' = loading
            /\ IF k \in KeysAt(entities, last'.type)
               THEN /\ k \notin KeysAt(entities', last'.type)
                    /\ OthersUnchanged(entities, entities', last'.type, k)
               ELSE entities' = entities]_vars

\* the comment c1 was removed from a store that holds another comment, a
\* post and two users
RemoveDeletesWitness ==
    /\ last.op = "removeEntity"
    /\ last.success
    /\ last.type = "comments"
    /\ last.id = Str("c1")
    /\ KeysAt(entities, "comments") = {"c2"}
    /\ Len(entities["posts"]) = 1
    /\ Len(entities["users"]) = 2

\* the stored record rec names the entity with identifier id as its author
AuthoredBy(rec, id) == IsId(rec.f["author"]) /\ ToKey(rec.f["author"]) = ToKey(id)

\* C20: after a successful updateEntity on a user, every denormalized post and
\* every denormalized comment, alone or inside a denormalized post, whose
\* stored author is that user shows the updated user record as its author.
UpdatedUserShown ==
    [][(/\ nops' = nops + 1
        /\ pc' = "idle"
        /\ last'.op = "updateEntity"
        /\ last'.type = "users"
        /\ last'.success) =>
        /\ \A t \in {"posts", "comments"} :
              \A i \in 1..Len(entities'[t]) :
                  AuthoredBy(entities'[t][i].v, last'.id)
                      => Get(View(entities', t, entities'[t][i].k), "author") = last'.data
        /\ \A i \in 1..Len(entities'["posts"]) :
              LET comments == Get(View(entities', "posts", entities'["posts"][i].k), "comments")
              IN  comments.t = "arr" =>
                      \A j \in 1..Len(comments.a) :
                          AuthoredBy(RecordAt(entities', "comments",
                                              ToKey(Get(comments.a[j], "id"))), last'.id)
                              => Get(comments.a[j], "author") = last'.data]_vars

\* the user u1, stored with the name A as author of the post p1 and of its
\* comment c2, was renamed: the post and the comment show the new record
UpdatedUserWitness ==
    /\ nops = 2
    /\ last.op = "updateEntity"
    /\ last.type = "users"
    /\ last.success
    /\ last.data = User("u1", "B")
    /\ Get(View(entities, "posts", "p1"), "author") = User("u1", "B")
    /\ Get(View(entities, "comments", "c2"), "author") = User("u1", "B")
    /\ Get(View(entities, "posts", "p1"), "comments") =
           Arr(<<Comment(Str("c1"), User("u2", "A")), Comment(Str("c2"), User("u1", "B"))>>)

\* the (type, key) pairs a completed store operation may write: those of the
\* occurrences normalize met, each under the type it was met as, or the one
\* pair the operation names
Written(t, k) ==
    IF pc = "adding"
    THEN LET visited == normalize(cur.data, cur.type, schemas).visited
         IN  \E i \in 1..Len(visited) :
                 visited[i].type = t /\ ToKey(IdOf(visited[i])) = k
    ELSE t = last'.type /\ k = ToKey(last'.id)

\* C26: identifiers are unique per entity type: a store operation changes,
\* adds or removes the record of an identifier only in the collection of the
\* type it was given or met the identifier as, so an entity of another type
\* with the same identifier is never overwritten.
IdentifiersScopedByType ==
    [][(pc' = "idle" /\ entities' # entities) =>
        \A t \in DOMAIN entities \cup DOMAIN entities' :
            \A k \in KeysAt(entities, t) \cup KeysAt(entities', t) :
                RecordAt(entities', t, k) # RecordAt(entities, t, k) => Written(t, k)]_vars

\* a user and a comment share the identifier c1 and the user's name was updated
IdentifiersScopedWitness ==
    /\ last.op = "updateEntity"
    /\ last.type = "users"
    /\ last.id = Str("c1")
    /\ last.success
    /\ RecordAt(entities, "users", "c1") = User("c1", "B")
    /\ RecordAt(entities, "comments", "c1") = Comment(Str("c1"), Str("c1"))

\* C33: an addNormalizedData whose normalization fails, at the root or after
\* nested entities were processed, leaves the entity collections exactly as
\* they were, and the failure reaches the caller.
FailedAddChangesNothing ==
    [][(/\ pc = "adding"
        /\ pc' = "idle"
        /\ normalize(cur.data, cur.type, schemas).err # "none") =>
        /\ entities' = entities
        /\ last'.threw = normalize(cur.data, cur.type, schemas).err
        /\ ~last'.success]_vars

\* the call failed at the author of the second comment, after it had processed
\* a user u1 that differs from the stored one
FailedAddWitness ==
    /\ last.op = "addNormalizedData"
    /\ last.threw = "MissingIdentifier"
    /\ LET partial == normalize(last.data, last.type, schemas).partial
       IN  /\ RecordAt(partial, "users", "u1") = User("u1", "A")
           /\ RecordAt(partial, "comments", "c1") # Undef
    /\ RecordAt(entities, "users", "u1") = User("u1", "B")
    /\ RecordAt(entities, "comments", "c1") = Undef

\* the identifier key of the schema of type t in the store
StoreIdKey(t) == IF schemas[t].idKey = "" THEN "id" ELSE schemas[t].idKey

\* C34: in every state of the store every record is held under the key that
\* is the value of its own identifier field.
KeyedByOwnIdentifier ==
    \A t \in DOMAIN entities \cap DOMAIN schemas :
        \A i \in 1..Len(entities[t]) :
            /\ Get(entities[t][i].v, StoreIdKey(t)) # Undef
            /\ entities[t][i].k = ToKey(Get(entities[t][i].v, StoreIdKey(t)))

\* C35: in every state of the store the keys of entities and the keys of
\* loading are the entity types of the schema map, whatever type names the
\* operations were given.
KeysAreSchemaTypes ==
    /\ DOMAIN entities = DOMAIN schemas
    /\ DOMAIN loading = DOMAIN schemas

-----------------------------------------------------------------------------
(* Properties of the denormalized views, checked under SpecV *)

\* C19: a read of a view, also of one created before the writes, returns
\* denormalize applied to the current entities; a view that has not to
\* recompute holds that outcome.
ViewsNeverStale ==
    /\ [](\A i \in 1..Len(views) :
            ~views[i].dirty => views[i].out = Computation(views[i], entities))
    /\ [][(nops' = nops + 1 /\ last'.op = "read") =>
            LET v == [kind |-> IF last'.id = Undef THEN "entities" ELSE "entity",
                      type |-> last'.type, id |-> last'.id]
            IN  /\ last'.threw = Computation(v, entities').err
                /\ last'.data = Computation(v, entities').val]_vars

\* a view of the post p1 created before anything was stored was read, the
\* post was added, and the next read of the view returned the post
ViewsWitness ==
    /\ nops = 4
    /\ last.op = "read"
    /\ last.type = "posts"
    /\ last.data # Null
    /\ Len(last.data.f["comments"].a) = 2
    /\ Len(views) = 1
    /\ views[1].runs = 2

\* the keys of the collection m in the order in which they were first stored
InsertionOrder(m) == Arr([i \in 1..Len(m) |-> Str(m[i].k)])

\* C22: a read of getDenormalizedEntities(type) lists the entities of the
\* type in the order in which their identifiers were first stored in the
\* collection, whether these are strings or integers.
ListedInInsertionOrder ==
    [][(/\ nops' = nops + 1
        /\ last'.op = "read"
        /\ last'.id = Undef
        /\ last'.type \in DOMAIN entities') =>
        last'.data = denormalize(InsertionOrder(entities'[last'.type]), last'.type,
                                 entities', schemas).val]_vars

-----------------------------------------------------------------------------
(* Properties of the objects readers hold, checked under SpecC *)

-----------------------------------------------------------------------------
(* Properties of NormalizedBlogStore, checked under SpecB and SpecE *)

\* the raw comments list of the stored post with key k
CommentsOf(ents, k) == Get(RecordAt(ents, "posts", k), "comments")

\* id is in the raw comments list of some stored post
Referenced(ents, id) ==
    \E k \in KeysAt(ents, "posts") :
        /\ CommentsOf(ents, k).t = "arr"
        /\ \E j \in 1..Len(CommentsOf(ents, k).a) : CommentsOf(ents, k).a[j] = id

\* C28: addComment(postId, comment) with a username as comment.author
\* completes without error, leaves the new comment in the comments
\* collection and, when the post is stored, leaves the post's comments list
\* as it was with the new identifier appended.
AddCommentAppends ==
    [][(/\ nops' = nops + 1
        /\ pc' = "idle"
        /\ last'.op = "addComment"
        /\ Get(last'.data, "author").t = "str") =>
        LET commentId == Get(last'.data, "id")
        IN  /\ last'.threw = "none"
            /\ Stored(entities', "comments", commentId)
            /\ Stored(entities, "posts", last'.id) =>
                   CommentsOf(entities', ToKey(last'.id)) =
                       Arr(Append(CommentsOf(entities, ToKey(last'.id)).a, commentId))]_vars

\* C29: removeComment(commentId) of a stored comment leaves the comments
\* collection without commentId and every stored post with its comments list
\* as it was less commentId, the other references in their order.
RemoveCommentCascades ==
    [][(/\ nops' = nops + 1
        /\ pc' = "idle"
        /\ last'.op = "removeComment"
        /\ Stored(entities, "comments", last'.id)) =>
        /\ last'.threw = "none"
        /\ ~Stored(entities', "comments", last'.id)
        /\ ~Referenced(entities', last'.id)
        /\ KeysAt(entities', "posts") = KeysAt(entities, "posts")
        /\ \A k \in KeysAt(entities, "posts") :
              CommentsOf(entities', k) =
                  Arr(SelectSeq(CommentsOf(entities, k).a, LAMBDA id : id # last'.id))]_vars

\* comment1, held by post1 and twice by post3, was removed
RemoveCommentWitness ==
    /\ last.op = "removeComment"
    /\ last.id = Str("comment1")
    /\ last.success
    /\ ~Stored(entities, "comments", Str("comment1"))
    /\ CommentsOf(entities, "post1") = Arr(<<Str("comment2")>>)
    /\ CommentsOf(entities, "post3") = Arr(<<Str("comment6")>>)
    /\ Len(CommentsOf(entities, "post2").a) = 3

\* C30: the removeComment that tests post.comments.includes(commentId) on the
\* denormalized posts leaves no stored post with commentId in its comments
\* list.
RemoveCommentUnreferences ==
    [][(/\ nops' = nops + 1
        /\ pc' = "idle"
        /\ last'.op = "removeComment"
        /\ Stored(entities, "comments", last'.id)) =>
        ~Referenced(entities', last'.id)]_vars

\* C36: after any sequence of operations of NormalizedBlogStore every
\* identifier in a stored post's comments list is a stored comment and the
\* author of every stored post and comment is a stored user.
ReferencesResolve ==
    /\ \A i \in 1..Len(entities["posts"]) :
          LET post == entities["posts"][i].v
          IN  /\ Stored(entities, "users", Get(post, "author"))
              /\ Get(post, "comments").t = "arr"
              /\ \A j \in 1..Len(Get(post, "comments").a) :
                    Stored(entities, "comments", Get(post, "comments").a[j])
    /\ \A i \in 1..Len(entities["comments"]) :
          Stored(entities, "users", Get(entities["comments"][i].v, "author"))

\* the sample data was loaded, a comment was added to post1, user1 was renamed
\* and comment1 was removed
ReferencesResolveWitness ==
    /\ nops = 4
    /\ pc = "idle"
    /\ KeysAt(entities, "posts") = {"post1", "post2"}
    /\ CommentsOf(entities, "post1") = Arr(<<Str("comment2"), Str("comment1700000000001")>>)
    /\ ~Stored(entities, "comments", Str("comment1"))
    /\ Stored(entities, "comments", Str("comment1700000000001"))
    /\ Get(RecordAt(entities, "users", "user1"), "name") = Str("User 1 (Updated)")

-----------------------------------------------------------------------------
(* Properties of the normalizeBlogData functions, checked under SpecH *)

\* the identifiers of the posts of the input
PostIds == {Get(nInput.a[i], "id") : i \in 1..Len(nInput.a)}

\* C31: normalizeBlogData of blog.normalizers.ts returns the collections of
\* the normalized users, comments and posts for every array of nested posts,
\* without failing.
BlogDataNormalized ==
    hw.blog.done =>
        /\ hw.blog.err = "none"
        /\ {Get(hw.blog.posts[i], "id") : i \in 1..Len(hw.blog.posts)} = PostIds
        /\ nInput.a # <<>> => hw.blog.users # <<>>

\* C37: normalizeBlogData of normalization.utils returns the user, comment
\* and post records, in the order, of the collections the generic normalize
\* produces for the same array of nested posts.
UtilsMatchesGeneric ==
    (hw.utils.done /\ npc = "normalized") =>
        /\ hw.utils.err = nd.err
        /\ hw.utils.users = ObjectValues(Collection("users"))
        /\ hw.utils.comments = ObjectValues(Collection("comments"))
        /\ hw.utils.posts = ObjectValues(Collection("posts"))

====
